---- MODULE Spec2Model ----
(***************************************************************************)
(* Lateral-Connection GIS maker: the identity matcher                      *)
(* (lib/parsers/mdbParser.ts), the coordinate validator and the clock      *)
(* resolvers (lib/utils), and the lateral assembler (app/api/process).     *)
(*                                                                         *)
(* JavaScript values are modelled as tagged records:                       *)
(*   [t |-> "undef"]            undefined / null / absent property         *)
(*   [t |-> "str", s |-> seq]   a string, as a sequence of 1-char strings  *)
(*   [t |-> "num", n |-> k]     a number (a natural)                       *)
(*   [t |-> "nan"]              NaN, as Number() returns it                *)
(* Strings are built over the alphabet Chars (digits, a lower and an upper *)
(* case letter, blank), on which String.trim, toLowerCase, Number and      *)
(* parseInt are modelled by what they compute.                             *)
(***************************************************************************)
EXTENDS Integers, Sequences, FiniteSets, TLC

\* ------------------------------------------------------------------ bounds
MaxLen == 3        \* longest FID / reference string of the normalisation runs
MaxAssets == 2     \* longest asset list of the matcher runs
MaxInsp == 3       \* longest inspection list of the matcher runs
MaxRouteAssets == 2  \* longest asset list of the route runs
MaxRouteInsp == 2    \* longest inspection list of the route runs
MaxDefects == 1      \* longest defect list of the route runs
MaxTaps == 2         \* longest tap list of the route runs
MaxLine == 5         \* longest line asset of the projector runs, metres
MaxDistance == 7     \* requested distances range over -MaxDistance..MaxDistance metres

\* ------------------------------------------------------- JavaScript values
Undef == [t |-> "undef"]
NaNV == [t |-> "nan"]
Str(s) == [t |-> "str", s |-> s]
Num(n) == [t |-> "num", n |-> n]
Bool(b) == [t |-> "bool", b |-> b]

Chars == {"0", "7", "a", "A", " "}
DigitSeq == <<"0", "1", "2", "3", "4", "5", "6", "7", "8", "9">>
DigitChars == {DigitSeq[k] : k \in 1..10}
DigitVal(c) == (CHOOSE k \in 1..10 : DigitSeq[k] = c) - 1

\* all strings over Chars of length at most n
StringsUpTo(n) == UNION {[1..k -> Chars] : k \in 0..n}

\* JS truthiness: "", 0, NaN, undefined and null are falsy
Truthy(v) ==
  \/ v.t = "str" /\ Len(v.s) > 0
  \/ v.t = "num" /\ v.n # 0

\* a || b
JsOr(a, b) == IF Truthy(a) THEN a ELSE b

RECURSIVE TrimLeft(_)
TrimLeft(s) == IF s # <<>> /\ Head(s) = " " THEN TrimLeft(Tail(s)) ELSE s

RECURSIVE TrimRight(_)
TrimRight(s) ==
  IF s # <<>> /\ s[Len(s)] = " " THEN TrimRight(SubSeq(s, 1, Len(s) - 1)) ELSE s

\* String.prototype.trim
Trim(s) == TrimRight(TrimLeft(s))

LowerChar(c) == IF c = "A" THEN "a" ELSE c

\* String.prototype.toLowerCase
ToLowerCase(s) == [k \in 1..Len(s) |-> LowerChar(s[k])]

\* /^\d+$/.test(s)
IsDigitStr(s) == Len(s) > 0 /\ \A k \in 1..Len(s) : s[k] \in DigitChars

RECURSIVE DigitsToNat(_)
DigitsToNat(s) ==
  IF s = <<>> THEN 0
  ELSE 10 * DigitsToNat(SubSeq(s, 1, Len(s) - 1)) + DigitVal(s[Len(s)])

RECURSIVE NatToDigits(_)
NatToDigits(n) ==
  IF n < 10 THEN <<DigitSeq[n + 1]>>
  ELSE NatToDigits(n \div 10) \o <<DigitSeq[(n % 10) + 1]>>

\* String(v) for a string or a number
JsString(v) == IF v.t = "num" THEN NatToDigits(v.n) ELSE v.s

\* Number(v): a number is itself; a string is trimmed, "" is 0, a digit
\* string is its decimal value (leading zeros dropped), anything else NaN
JsNumber(v) ==
  IF v.t = "num" THEN v
  ELSE IF v.t = "str" THEN
         (IF Trim(v.s) = <<>> THEN Num(0)
          ELSE IF IsDigitStr(Trim(v.s)) THEN Num(DigitsToNat(Trim(v.s)))
          ELSE NaNV)
  ELSE NaNV

\* parseInt(s, 10) on a digit string
ParseInt(s) == DigitsToNat(s)

\* Map.get: undefined when the key is absent
MapGet(m, k) == IF k \in DOMAIN m THEN m[k] ELSE Undef

\* Map.set: insert or overwrite
MapSet(m, k, v) == [x \in (DOMAIN m) \cup {k} |-> IF x = k THEN v ELSE m[x]]

EmptyMap == [x \in {} |-> Undef]

\* ------------------------------------------------------ identity matcher
\* An asset is [FID, id, altId]: FID is properties.FID || .fid || .Fid,
\* id is properties.id || .assetId || .ASSET_ID, altId the remaining
\* aliases (Asset_ID ... Id) that only the assetId lookup reads.
\* An inspection is [pipeSegmentReference, assetId].

AssetPrefix == <<"a", "s", "s", "e", "t", "-">>

\* the asset key: trimmed FID, else id, else `asset-${index}` (0-based)
AssetKey(asset, idx) ==
  IF Truthy(asset.FID) THEN Str(Trim(JsString(asset.FID)))
  ELSE JsOr(asset.id, Str(AssetPrefix \o NatToDigits(idx - 1)))

\* the forms of a FID the lookup map registers, in the order they are set
FidFormsNoNumeric(fid) ==
  <<Trim(JsString(fid)), ToLowerCase(Trim(JsString(fid)))>>

FidForms(fid) ==
  <<Trim(JsString(fid)), ToLowerCase(Trim(JsString(fid)))>>
  \o (IF JsNumber(fid).t # "nan"
      THEN <<JsString(JsNumber(fid)), ToLowerCase(JsString(JsNumber(fid)))>>
      ELSE <<>>)

RECURSIVE MapSetAll(_, _, _)
MapSetAll(m, keys, v) ==
  IF keys = <<>> THEN m ELSE MapSetAll(MapSet(m, Head(keys), v), Tail(keys), v)

\* pipeSegmentRefMap after one asset of the build loop
RefMapAdd(m, asset, idx) ==
  IF Truthy(asset.FID)
  THEN MapSetAll(m, FidForms(asset.FID), AssetKey(asset, idx))
  ELSE m

\* the asset id the fallback map reads
AssetIdOf(asset) == JsOr(asset.id, asset.altId)

\* assetIdMap after one asset of the build loop: only assets lacking a FID
IdMapAddAlways(m, asset, idx) ==
  IF Truthy(AssetIdOf(asset))
  THEN MapSetAll(m, <<Trim(JsString(AssetIdOf(asset))),
                      ToLowerCase(Trim(JsString(AssetIdOf(asset))))>>,
                 AssetKey(asset, idx))
  ELSE m

IdMapAdd(m, asset, idx) ==
  IF Truthy(AssetIdOf(asset)) /\ ~Truthy(asset.FID)
  THEN MapSetAll(m, <<Trim(JsString(AssetIdOf(asset))),
                      ToLowerCase(Trim(JsString(AssetIdOf(asset))))>>,
                 AssetKey(asset, idx))
  ELSE m

\* priority 1: exact, lowercase, Number(), parseInt() lookups of the reference
RefLookup(rm, insp) ==
  IF ~Truthy(insp.pipeSegmentReference) THEN Undef
  ELSE
    LET refStr == Trim(JsString(insp.pipeSegmentReference))
        k1 == MapGet(rm, refStr)
        k2 == IF Truthy(k1) THEN k1 ELSE MapGet(rm, ToLowerCase(refStr))
        refNum == JsNumber(Str(refStr))
        k3 == IF Truthy(k2) THEN k2
              ELSE IF refNum.t # "nan"
                   THEN JsOr(MapGet(rm, JsString(refNum)),
                             MapGet(rm, ToLowerCase(JsString(refNum))))
                   ELSE k2
        k4 == IF ~Truthy(k3) /\ IsDigitStr(refStr)
              THEN JsOr(MapGet(rm, NatToDigits(ParseInt(refStr))),
                        MapGet(rm, ToLowerCase(NatToDigits(ParseInt(refStr)))))
              ELSE k3
    IN k4

\* priority 2: the assetId fallback lookup
IdLookup(im, insp) ==
  IF ~Truthy(insp.assetId) THEN Undef
  ELSE JsOr(MapGet(im, Trim(JsString(insp.assetId))),
            MapGet(im, ToLowerCase(Trim(JsString(insp.assetId)))))

\* the pushes one pass of the inspection loop makes: <<key, branch>> pairs
FiledNoContinue(rm, im, insp) ==
  (IF Truthy(RefLookup(rm, insp)) THEN <<<<RefLookup(rm, insp), "ref">>>> ELSE <<>>)
  \o (IF Truthy(IdLookup(im, insp)) THEN <<<<IdLookup(im, insp), "id">>>> ELSE <<>>)

FiledIdFirst(rm, im, insp) ==
  IF Truthy(IdLookup(im, insp)) THEN <<<<IdLookup(im, insp), "id">>>>
  ELSE IF Truthy(RefLookup(rm, insp)) THEN <<<<RefLookup(rm, insp), "ref">>>>
  ELSE <<>>

Filed(rm, im, insp) ==
  IF Truthy(RefLookup(rm, insp)) THEN <<<<RefLookup(rm, insp), "ref">>>>
  ELSE IF Truthy(IdLookup(im, insp)) THEN <<<<IdLookup(im, insp), "id">>>>
  ELSE <<>>

\* matched.get(key).push(j), creating the list when the key is new
RECURSIVE PushAll(_, _, _)
PushAll(m, pushes, j) ==
  IF pushes = <<>> THEN m
  ELSE PushAll(MapSet(m, Head(pushes)[1],
                      (IF Head(pushes)[1] \in DOMAIN m THEN m[Head(pushes)[1]] ELSE <<>>)
                      \o <<j>>),
               Tail(pushes), j)

\* --------------------------------------------------- coordinate validator
\* A number is [k, v]: "fin" a finite value in whole degrees, "inf" with
\* v = 1 / -1 for +/-Infinity, "nan" for NaN; "str" is a value that is not
\* of type number.  coords is [kind, elems] with kind "null", "undefined",
\* "notarray" or "array".
MaxCoord == 200    \* finite inputs range over -MaxCoord..MaxCoord degrees

Fin(n) == [k |-> "fin", v |-> n]
PosInf == [k |-> "inf", v |-> 1]
NegInf == [k |-> "inf", v |-> -1]
NaN == [k |-> "nan", v |-> 0]
NotNum == [k |-> "str", v |-> 0]
NullCoords == [kind |-> "null", elems |-> <<>>]
Coords(a, b) == [kind |-> "array", elems |-> <<a, b>>]

\* an integer standing for the value in comparisons; larger than every
\* finite value the model computes
Huge == 1000 * (MaxCoord + 360)
Val(e) == IF e.k = "inf" THEN e.v * Huge ELSE e.v
OfVal(x) == IF x >= Huge THEN PosInf ELSE IF x <= -Huge THEN NegInf ELSE Fin(x)

Abs(x) == IF x < 0 THEN -x ELSE x
Max(x, y) == IF x > y THEN x ELSE y
Min(x, y) == IF x < y THEN x ELSE y

\* a % m as JavaScript computes it: the sign follows the dividend
JsRem(x, m) == IF x >= 0 THEN x % m ELSE -((-x) % m)

\* lines 8-19: the input is an array of at least two non-NaN numbers
ValidInput(coords) ==
  /\ coords.kind = "array"
  /\ Len(coords.elems) >= 2
  /\ coords.elems[1].k \in {"fin", "inf"}
  /\ coords.elems[2].k \in {"fin", "inf"}

\* lines 25-63: the first pass decides needsSwap
NeedsSwapNoPattern3(first, second) ==
  IF Abs(second) > 90 \/ Abs(first) > 180 THEN TRUE
  ELSE IF Abs(first) <= 90 /\ Abs(second) <= 180 THEN
    IF Abs(first) <= 90 /\ Abs(second) > 90 THEN TRUE
    ELSE IF Abs(first) <= 90 /\ Abs(second) <= 180 /\ Abs(first) < Abs(second) THEN
      \/ first > 0 /\ second < 0
      \/ Abs(first) < 60 /\ Abs(second) > 60
      \/ 10 * Abs(first) < 8 * Abs(second)
      \/ Abs(first) < 50
    ELSE FALSE
  ELSE FALSE

NeedsSwapNoFifty(first, second) ==
  IF Abs(second) > 90 \/ Abs(first) > 180 THEN TRUE
  ELSE IF Abs(first) <= 90 /\ Abs(second) <= 180 THEN
    IF Abs(first) <= 90 /\ Abs(second) > 90 THEN TRUE
    ELSE IF Abs(first) <= 90 /\ Abs(second) <= 180 /\ Abs(first) < Abs(second) THEN
      \/ first > 0 /\ second < 0
      \/ Abs(first) < 60 /\ Abs(second) > 60
      \/ 10 * Abs(first) < 8 * Abs(second)
    ELSE IF Abs(first) <= 90 /\ Abs(second) <= 180 /\ first > 0 /\ second < 0 THEN TRUE
    ELSE FALSE
  ELSE FALSE

NeedsSwap(first, second) ==
  IF Abs(second) > 90 \/ Abs(first) > 180 THEN TRUE
  ELSE IF Abs(first) <= 90 /\ Abs(second) <= 180 THEN
    IF Abs(first) <= 90 /\ Abs(second) > 90 THEN TRUE
    ELSE IF Abs(first) <= 90 /\ Abs(second) <= 180 /\ Abs(first) < Abs(second) THEN
      \/ first > 0 /\ second < 0
      \/ Abs(first) < 60 /\ Abs(second) > 60
      \/ 10 * Abs(first) < 8 * Abs(second)
      \/ Abs(first) < 50
    ELSE IF Abs(first) <= 90 /\ Abs(second) <= 180 /\ first > 0 /\ second < 0 THEN TRUE
    ELSE FALSE
  ELSE FALSE

\* lines 66-71: <<lng, lat>> after the first pass
FirstPass(first, second) ==
  IF NeedsSwap(first, second) THEN <<second, first>> ELSE <<first, second>>

\* lines 75-91: the last-resort swap, else the clamp, then the second clamp
LatFix(p) ==
  LET lng == p[1]
      lat == p[2]
      q == IF lat < -90 \/ lat > 90
           THEN IF lng >= -90 /\ lng <= 90
                   /\ (lat < -180 \/ lat > 180 \/ Abs(lat) > Abs(lng))
                THEN <<lat, lng>>
                ELSE <<lng, Max(-90, Min(90, lat))>>
           ELSE p
  IN IF q[2] < -90 \/ q[2] > 90 THEN <<q[1], Max(-90, Min(90, q[2]))>> ELSE q

\* lines 94-97: lng = ((lng + 180) % 360) - 180 when out of range; the
\* remainder of an infinite value is NaN
WrapLng(lng) ==
  IF lng < -180 \/ lng > 180
  THEN IF Abs(lng) >= Huge THEN NaN ELSE Fin(JsRem(lng + 180, 360) - 180)
  ELSE OfVal(lng)

\* lines 100-105: the final guard
GuardedNoCheck(lng, lat) ==
  [kind |-> "array", elems |-> <<lng, OfVal(lat)>>]

Guarded(lng, lat) ==
  IF lat < -90 \/ lat > 90 \/ lng.k = "nan" THEN NullCoords
  ELSE [kind |-> "array", elems |-> <<lng, OfVal(lat)>>]

\* validateCoordinates
ValidateCoordinates(coords) ==
  IF ~ValidInput(coords) THEN NullCoords
  ELSE LET p == LatFix(FirstPass(Val(coords.elems[1]), Val(coords.elems[2])))
       IN Guarded(WrapLng(p[1]), p[2])

\* ---------------------------------------------------------- clock resolvers
\* A clock reading is [k, h]: k = "num" with h the reading in units of
\* 1/ClockScale hour, or k = "null" / "undefined".  Bearings are kept in the
\* same unit, 1/ClockScale degree.
ClockScale == 2    \* finest fraction of an hour among the readings
MaxClock == 30     \* readings range over -MaxClock..MaxClock hours

ClockNum(h) == [k |-> "num", h |-> h]
ClockNull == [k |-> "null", h |-> 0]
ClockUndefined == [k |-> "undefined", h |-> 0]

\* lines 128-129: the two while loops
RECURSIVE NormalizeBearing(_)
NormalizeBearing(b) ==
  IF b < 0 THEN NormalizeBearing(b + 360 * ClockScale)
  ELSE IF b >= 360 * ClockScale THEN NormalizeBearing(b - 360 * ClockScale)
  ELSE b

\* clockToBearing: (clockPosition % 12) * 30, normalised
ClockToBearingNoLoop(clock) == JsRem(clock.h, 12 * ClockScale) * 30

ClockToBearing(clock) == NormalizeBearing(JsRem(clock.h, 12 * ClockScale) * 30)

High == "high"
Low == "low"
None == "none"
Side(s, c) == [side |-> s, confidence |-> c]

\* clockToSide
ClockToSideNoWrap(clock) ==
  IF clock.k # "num" THEN Side(0, None)
  ELSE
    LET r == JsRem(clock.h, 12 * ClockScale)
        c == IF r = 0 THEN 12 * ClockScale ELSE r
    IN IF c = 3 * ClockScale THEN Side(1, High)
       ELSE IF c = 9 * ClockScale THEN Side(-1, High)
       ELSE IF c > 0 /\ c < 6 * ClockScale THEN Side(1, Low)
       ELSE IF c > 6 * ClockScale /\ c < 12 * ClockScale THEN Side(-1, Low)
       ELSE Side(0, Low)

ClockToSide(clock) ==
  IF clock.k # "num" THEN Side(0, None)
  ELSE
    LET r == JsRem(JsRem(clock.h, 12 * ClockScale) + 12 * ClockScale, 12 * ClockScale)
        c == IF r = 0 THEN 12 * ClockScale ELSE r
    IN IF c = 3 * ClockScale THEN Side(1, High)
       ELSE IF c = 9 * ClockScale THEN Side(-1, High)
       ELSE IF c > 0 /\ c < 6 * ClockScale THEN Side(1, Low)
       ELSE IF c > 6 * ClockScale /\ c < 12 * ClockScale THEN Side(-1, Low)
       ELSE Side(0, Low)

\* ------------------------------------------------------- line projector
\* A line asset is [len, tangent]: its total length in metres and the
\* bearing of its direction in whole degrees, as turf.bearing reports it
\* (-179..180).  Distances along it are metres from its start; the code's
\* kilometres are these divided by 1000 on both sides of every comparison.
\* turf is a library outside the repository: along(x) for 0 <= x <= len is
\* the point x metres from the start; for x < 0 the call either throws or
\* returns a point before the start, depending on the library build.
OffsetDistance == 2000   \* millimetres the lateral point is offset from the line
StubLengthMm == 3048     \* millimetres of the stub (default stubLength)
SegmentHalf == 1         \* metres sampled before and after the point

Line(l, t) == [len |-> l, tangent |-> t]

\* lines 200 and 356: Math.min(distanceKm, lineLength)
ClampedDistance(distance, lineLength) == Min(distance, lineLength)

\* turf.along; NoPoint when the call throws
NoPoint == [kind |-> "throw", at |-> 0]
PointAt(x) == [kind |-> "point", at |-> x]
Along(line, x, turfThrows) ==
  IF x >= line.len THEN PointAt(line.len)
  ELSE IF x >= 0 THEN PointAt(x)
  ELSE IF turfThrows THEN NoPoint
  ELSE PointAt(x)

\* lines 215-225 and 364-374: the bearing of the segment around the point;
\* turf.bearing of two equal points is 0
LineBearing(line, clamped, turfThrows) ==
  LET before == Along(line, Max(0, clamped - SegmentHalf), turfThrows)
      after == Along(line, Min(line.len, clamped + SegmentHalf), turfThrows)
  IN IF before.kind = "throw" \/ after.kind = "throw" THEN [kind |-> "throw", deg |-> 0]
     ELSE IF before.at = after.at THEN [kind |-> "deg", deg |-> 0]
     ELSE IF before.at < after.at THEN [kind |-> "deg", deg |-> line.tangent]
     ELSE [kind |-> "deg", deg |-> IF line.tangent > 0 THEN line.tangent - 180
                                   ELSE line.tangent + 180]

\* lines 233-235 and 386-388: the two while loops, in whole degrees
RECURSIVE NormalizeDegrees(_)
NormalizeDegrees(b) ==
  IF b < 0 THEN NormalizeDegrees(b + 360)
  ELSE IF b >= 360 THEN NormalizeDegrees(b - 360)
  ELSE b

\* an error thrown inside turf
ProjectorThrow == [kind |-> "throw", message |-> <<"turf">>]

\* line 230: lineBearing + (side * 90)
LateralPerpendicular(lineBearing, side) == lineBearing + side * 90

\* line 383: lineBearing + (side !== 0 ? side * 90 : 90)
StubPerpendicularNoDefault(lineBearing, side) == lineBearing + side * 90

StubPerpendicular(lineBearing, side) ==
  lineBearing + (IF side # 0 THEN side * 90 ELSE 90)

\* calculateLateralFromLine: the distance handed to turf.along, the point
\* taken, and the offset (millimetres, bearing) applied to it
CalculateLateralFromLine(line, tapDistance, clockPosition, turfThrows) ==
  LET clamped == ClampedDistance(tapDistance, line.len)
      pointAlong == Along(line, clamped, turfThrows)
      side == ClockToSide(clockPosition).side
      lineBearing == LineBearing(line, clamped, turfThrows)
  IN IF pointAlong.kind = "throw" THEN ProjectorThrow
     ELSE IF clockPosition.k = "num" /\ side # 0
     THEN IF lineBearing.kind = "throw" THEN ProjectorThrow
          ELSE [kind |-> "point", at |-> pointAlong.at, offset |-> OffsetDistance,
                bearing |-> NormalizeDegrees(LateralPerpendicular(lineBearing.deg, side))]
     ELSE [kind |-> "point", at |-> pointAlong.at, offset |-> 0, bearing |-> 0]

\* calculateStubFromLine: connectionPoint (at) and the stub end (offset
\* millimetres from it at bearing)
CalculateStubFromLine(line, tapDistance, clockPosition, turfThrows) ==
  LET clamped == ClampedDistance(tapDistance, line.len)
      pointAlong == Along(line, clamped, turfThrows)
      lineBearing == LineBearing(line, clamped, turfThrows)
      side == ClockToSide(clockPosition).side
  IN IF pointAlong.kind = "throw" \/ lineBearing.kind = "throw" THEN ProjectorThrow
     ELSE [kind |-> "stub", at |-> pointAlong.at, offset |-> StubLengthMm,
           bearing |-> NormalizeDegrees(StubPerpendicular(lineBearing.deg, side))]

\* calculateLateralFromPoint: turf.destination from the point, tapDistance
\* metres at clockToBearing(clockPosition) (in 1/ClockScale degree); the
\* bearing of an undefined clock is NaN and so is the result
CalculateLateralFromPoint(tapDistance, clockPosition) ==
  IF clockPosition.k = "undefined" THEN [kind |-> "nan"]
  ELSE [kind |-> "destination", at |-> 0, offset |-> 1000 * tapDistance,
        bearing |-> ClockToBearing(clockPosition)]

\* lines 302-321: the stub of a point asset
StubFromPoint(clockPosition) ==
  IF clockPosition.k = "undefined" THEN [kind |-> "nan"]
  ELSE [kind |-> "pointstub", at |-> 0, offset |-> StubLengthMm,
        bearing |-> ClockToBearing(clockPosition)]

\* lines 277-279 and 332-334
UnsupportedUnnamed(geomType) ==
  [kind |-> "throw", message |-> <<"Unsupported geometry type">>]

UnsupportedGeometry(geomType) ==
  [kind |-> "throw", message |-> <<"Unsupported geometry type: ", geomType>>]

\* calculateLateralPosition on a geometry [type, line]
LateralPositionOf(geometry, tapDistance, clockPosition, turfThrows) ==
  IF geometry.type = "Point" THEN CalculateLateralFromPoint(tapDistance, clockPosition)
  ELSE IF geometry.type \in {"LineString", "MultiLineString"}
  THEN CalculateLateralFromLine(geometry.line, tapDistance, clockPosition, turfThrows)
  ELSE UnsupportedGeometry(geometry.type)

\* calculateLateralStub on a geometry [type, line]
LateralStubOf(geometry, tapDistance, clockPosition, turfThrows) ==
  IF geometry.type = "Point" THEN StubFromPoint(clockPosition)
  ELSE IF geometry.type \in {"LineString", "MultiLineString"}
  THEN CalculateStubFromLine(geometry.line, tapDistance, clockPosition, turfThrows)
  ELSE UnsupportedGeometry(geometry.type)

\* ------------------------------------------------------- tap classifier
\* MapView (part_000 99-124).  A defect is [defectCode, PACP_Code, Code,
\* distance]; the two property codes are undefined when the defect has no
\* property bag.
Lowers == <<"a", "b", "f", "s", "t">>
Uppers == <<"A", "B", "F", "S", "T">>
UpperChar(c) ==
  IF \E k \in 1..Len(Lowers) : Lowers[k] = c
  THEN Uppers[CHOOSE k \in 1..Len(Lowers) : Lowers[k] = c]
  ELSE c

\* String.prototype.toUpperCase
ToUpperCase(s) == [k \in 1..Len(s) |-> UpperChar(s[k])]

\* String.prototype.startsWith
StartsWith(s, prefix) == Len(s) >= Len(prefix) /\ SubSeq(s, 1, Len(prefix)) = prefix

\* a ?? b
Coalesce(a, b) == IF a.t = "undef" THEN b ELSE a

\* isTapCode
IsTapCode(code) ==
  LET c == ToUpperCase(Trim(Coalesce(code, Str(<<>>)).s))
  IN StartsWith(c, <<"T", "B">>) \/ StartsWith(c, <<"T", "F">>) \/ StartsWith(c, <<"T", "S">>)

\* line 120: d.defectCode ?? d.properties?.PACP_Code ?? d.properties?.Code
DefectCodeOf(d) == Coalesce(Coalesce(d.defectCode, d.PACP_Code), d.Code)

\* d.distance != null
DistancePresent(d) == d.distance.t # "undef"

\* line 122: d.distance != null && !Number.isNaN(Number(d.distance))
HasDistance(d) == d.distance.t # "undef" /\ JsNumber(d.distance).t # "nan"

\* the predicate of the filter, lines 119-124
IsTapDefect(d) == IsTapCode(DefectCodeOf(d)) /\ HasDistance(d)

\* Array.prototype.filter with that predicate
RECURSIVE FilterTapDefects(_)
FilterTapDefects(ds) ==
  IF ds = <<>> THEN <<>>
  ELSE (IF IsTapDefect(Head(ds)) THEN <<Head(ds)>> ELSE <<>>) \o FilterTapDefects(Tail(ds))

\* ------------------------------------------------------- process route
\* The whole matcher as the route calls it (route.ts 37): the build loop,
\* then the inspection loop.
RECURSIVE BuildRefMap(_, _, _)
BuildRefMap(m, as, idx) ==
  IF idx > Len(as) THEN m ELSE BuildRefMap(RefMapAdd(m, as[idx], idx), as, idx + 1)

RECURSIVE BuildIdMap(_, _, _)
BuildIdMap(m, as, idx) ==
  IF idx > Len(as) THEN m ELSE BuildIdMap(IdMapAdd(m, as[idx], idx), as, idx + 1)

RECURSIVE MatchLoop(_, _, _, _, _)
MatchLoop(m, rm, im, ins, j) ==
  IF j > Len(ins) THEN m
  ELSE MatchLoop(PushAll(m, Filed(rm, im, ins[j]), j), rm, im, ins, j + 1)

MatchInspectionsToAssets(ins, as) ==
  MatchLoop(EmptyMap, BuildRefMap(EmptyMap, as, 1), BuildIdMap(EmptyMap, as, 1), ins, 1)

\* the key the route looks an asset's inspections up with (route.ts 73-77)
RouteAssetKeyStr(asset, idx) == Str(Trim(JsString(AssetKey(asset, idx))))

\* matchedInspections.get(assetKeyStr) || []
AssetInspections(m, asset, idx) ==
  IF RouteAssetKeyStr(asset, idx) \in DOMAIN m THEN m[RouteAssetKeyStr(asset, idx)] ELSE <<>>

\* The geometry projector.  An asset carries geomType and pos, the first
\* position of its geometry.  The geodesic arithmetic is the turf library's:
\* it is modelled on whole degrees, where an offset of metres leaves the
\* position in place and a NaN ordinate stays NaN.  What the repository
\* decides is which geometry types are projected and which throw.
Supported(asset) == asset.geomType \in {"Point", "LineString", "MultiLineString"}

\* an error left the projector
Threw(result) == result.kind = "throw"

\* calculateLateralPosition
CalculateLateralPosition(asset, distance, clock) ==
  IF Supported(asset) THEN asset.pos ELSE UnsupportedGeometry(asset.geomType)

\* what calculateLateralStub returns: connectionPoint and stubLine, whose
\* first point is the connectionPoint (part_003 318-321, 398-401)
StubAt(connectionPoint, stubEnd) ==
  [kind |-> "stub", connectionPoint |-> connectionPoint,
   stubLine |-> <<connectionPoint, stubEnd>>]

\* calculateLateralStub: the stub turf computes for the asset (asset.stub,
\* which may be an error thrown inside turf), or the throw for the type
CalculateLateralStub(asset, distance, clock) ==
  IF Supported(asset) THEN asset.stub ELSE UnsupportedGeometry(asset.geomType)

\* route.ts 155-182 and 302-324: the validated stub, fields left undefined
\* when the stub throws or a point fails validation
NoStub == [connectionPoint |-> NullCoords, stubLine |-> <<>>]

StubUnvalidated(asset, distance, clock) ==
  LET s == CalculateLateralStub(asset, distance, clock)
  IN IF Threw(s) THEN NoStub
     ELSE [connectionPoint |-> s.connectionPoint, stubLine |-> s.stubLine]

ValidatedStub(asset, distance, clock) ==
  LET s == CalculateLateralStub(asset, distance, clock)
  IN IF Threw(s) THEN NoStub
     ELSE [connectionPoint |-> ValidateCoordinates(s.connectionPoint),
           stubLine |->
             IF ValidateCoordinates(s.stubLine[1]) # NullCoords
                /\ ValidateCoordinates(s.stubLine[2]) # NullCoords
             THEN <<ValidateCoordinates(s.stubLine[1]), ValidateCoordinates(s.stubLine[2])>>
             ELSE <<>>]

\* route.ts 200-224 and 327-350: the validated first position of the
\* geometry, undefined (null here) for other geometry types
AssetCoordinates(asset) ==
  IF Supported(asset) THEN ValidateCoordinates(asset.pos) ELSE NullCoords

\* route.ts 192 and 282: the coordinates a lateral is emitted with; null
\* means the candidate is skipped
EmittedUnvalidated(raw) == raw

EmittedCoordinates(raw) == ValidateCoordinates(raw)

\* route.ts 46-68: defects grouped by trimmed inspectionId / reference, as
\* lists of positions in the input
RECURSIVE GroupDefects(_, _, _, _)
GroupDefects(m, ds, field, n) ==
  IF n > Len(ds) THEN m
  ELSE IF Truthy(ds[n][field])
       THEN GroupDefects(
              MapSet(m, Trim(JsString(ds[n][field])),
                     (IF Trim(JsString(ds[n][field])) \in DOMAIN m
                      THEN m[Trim(JsString(ds[n][field]))] ELSE <<>>) \o <<n>>),
              ds, field, n + 1)
       ELSE GroupDefects(m, ds, field, n + 1)

\* get(key) || get(key.toLowerCase()) || []
DefectsAt(m, key) ==
  IF key \in DOMAIN m THEN m[key]
  ELSE IF ToLowerCase(key) \in DOMAIN m THEN m[ToLowerCase(key)]
  ELSE <<>>

\* route.ts 106-111: append the defects whose id is not yet in the list
RECURSIVE AppendNew(_, _, _)
AppendNew(list, more, ds) ==
  IF more = <<>> THEN list
  ELSE IF \E n \in 1..Len(list) : ds[list[n]].id = ds[Head(more)].id
       THEN AppendNew(list, Tail(more), ds)
       ELSE AppendNew(Append(list, Head(more)), Tail(more), ds)

\* route.ts 91-112: the defects of one inspection
InspectionDefects(ds, insp) ==
  LET byId == IF Truthy(insp.propInspectionId)
              THEN DefectsAt(GroupDefects(EmptyMap, ds, "inspectionId", 1),
                             Trim(JsString(insp.propInspectionId)))
              ELSE <<>>
  IN IF Truthy(insp.pipeSegmentReference)
     THEN AppendNew(byId,
                    DefectsAt(GroupDefects(EmptyMap, ds, "pipeSegmentReference", 1),
                              Trim(JsString(insp.pipeSegmentReference))),
                    ds)
     ELSE byId

\* route.ts 116-124: the coordinates a defect gets, if any
DefectPositioned(asset, defect) ==
  /\ defect.distance.t # "undef"
  /\ defect.clockPosition.k # "undefined"
  /\ defect.clockPosition.h >= 0
  /\ Supported(asset)

\* route.ts 158 and 187: the distance handed to calculateLateralStub and
\* calculateLateralPosition
ProjectedDistance(insp) == insp.tapDistance

\* route.ts 140-144: the inspection lacks a required field
MissingFields(insp) ==
  \/ ~Truthy(insp.tapDistance)
  \/ insp.clockPosition.k # "num"

\* ------------------------------------------------------------------ state
VARIABLES assets, inspections, pipeSegmentRefMap, assetIdMap, matched, via, mpc, mi,
          vIn, vOut, vSwapped, vExport, vpc,
          cIn, cBearing, cSide, cpc,
          rBody, defects, taps, lateralLayerName, laterals, processedDefects,
          defectCoordinates, processedCount, skippedCount, defectCount,
          rpc, assetIndex, inspIndex, tapIndex, pending, response,
          mapboxToken, geocodingCache,
          pGeometry, pDistance, pClock, pTurfThrows, pPosition, pStub, ppc,
          mapDefects, tapDefects, tpc,
          tapPoints, previousTapPointsRef, geocodeRuns, tapInspections, isGeocodingTaps,
          reportedTaps, changes,
          gCalls, gLog,
          eLaterals, eFeatures, eReport, epc

mvars == <<assets, inspections, pipeSegmentRefMap, assetIdMap, matched, via, mpc, mi>>
vvars == <<vIn, vOut, vSwapped, vExport, vpc>>
cvars == <<cIn, cBearing, cSide, cpc>>
rinputs == <<rBody, defects, taps, lateralLayerName, mapboxToken>>
rvars == <<rinputs, laterals, processedDefects, defectCoordinates, processedCount,
           skippedCount, defectCount, rpc, assetIndex, inspIndex, tapIndex, pending,
           response, geocodingCache>>
pvars == <<pGeometry, pDistance, pClock, pTurfThrows, pPosition, pStub, ppc>>
tvars == <<mapDefects, tapDefects, tpc>>
avars == <<tapPoints, previousTapPointsRef, geocodeRuns, tapInspections, isGeocodingTaps,
           reportedTaps, changes>>
gvars == <<gCalls, gLog>>
evars == <<eLaterals, eFeatures, eReport, epc>>
xvars == <<avars, gvars, evars>>
ovars == <<pvars, tvars, xvars>>
vars == <<mvars, vvars, cvars, rvars, ovars>>

MatchIdle ==
  /\ assets = <<>>
  /\ inspections = <<>>
  /\ pipeSegmentRefMap = EmptyMap
  /\ assetIdMap = EmptyMap
  /\ matched = EmptyMap
  /\ via = <<>>
  /\ mpc = "idle"
  /\ mi = 1

ValidateIdle ==
  /\ vIn = NullCoords
  /\ vOut = NullCoords
  /\ vSwapped = FALSE
  /\ vExport = NullCoords
  /\ vpc = "idle"

ClockIdle ==
  /\ cIn = ClockNull
  /\ cBearing = -1
  /\ cSide = Side(0, None)
  /\ cpc = "idle"

NoLateral == [src |-> <<>>]
NoResponse == [status |-> 0]

RouteFresh ==
  /\ laterals = <<>>
  /\ processedDefects = <<>>
  /\ defectCoordinates = EmptyMap
  /\ processedCount = 0
  /\ skippedCount = 0
  /\ defectCount = 0
  /\ assetIndex = 1
  /\ inspIndex = 1
  /\ pending = NoLateral
  /\ response = NoResponse

RouteIdle ==
  /\ rBody = "none"
  /\ defects = <<>>
  /\ taps = <<>>
  /\ lateralLayerName = Undef
  /\ mapboxToken = TRUE
  /\ geocodingCache = EmptyMap
  /\ tapIndex = 1
  /\ RouteFresh
  /\ rpc = "idle"

NoResult == [kind |-> "none"]

ProjectorIdle ==
  /\ pGeometry = [type |-> "Point", line |-> Line(0, 0)]
  /\ pDistance = 0
  /\ pClock = ClockNull
  /\ pTurfThrows = TRUE
  /\ pPosition = NoResult
  /\ pStub = NoResult
  /\ ppc = "idle"

TapIdle ==
  /\ mapDefects = <<>>
  /\ tapDefects = <<>>
  /\ tpc = "idle"

\* MapView before any tap point arrived: the effect of part_000 218-225 has
\* reported the empty list
AssemblerIdle ==
  /\ tapPoints = <<>>
  /\ previousTapPointsRef = <<>>
  /\ geocodeRuns = <<>>
  /\ tapInspections = <<>>
  /\ isGeocodingTaps = FALSE
  /\ reportedTaps = <<>>
  /\ changes = 0

\* no reverseGeocode call was made
GeocoderIdle ==
  /\ gCalls = <<>>
  /\ gLog = <<>>

NoReport == [isValid |-> TRUE, errors |-> <<>>, warnings |-> <<>>,
             pointFeatures |-> 0, lineStringFeatures |-> 0]

\* nothing was exported
ExportIdle ==
  /\ eLaterals = <<>>
  /\ eFeatures = <<>>
  /\ eReport = NoReport
  /\ epc = "idle"

ExtrasIdle == AssemblerIdle /\ GeocoderIdle /\ ExportIdle

OthersIdle == ProjectorIdle /\ TapIdle /\ ExtrasIdle

\* ---------------------------------------------------------- matcher runs
Asset(f, i, a) == [FID |-> f, id |-> i, altId |-> a]
Insp(r, a) == [pipeSegmentReference |-> r, assetId |-> a]

\* inputs of the normalisation runs: one asset with any FID, one inspection
\* with any reference
NormFids == {Str(s) : s \in StringsUpTo(MaxLen)} \cup {Num(0), Num(7), Num(70)}
NormRefs == {Str(s) : s \in StringsUpTo(MaxLen)}

\* inputs of the list runs
AssetPool ==
  { Asset(Str(<<"7">>), Undef, Undef),
    Asset(Str(<<"A">>), Str(<<"a">>), Undef),
    Asset(Num(7), Undef, Str(<<"0">>)),
    Asset(Undef, Str(<<"a">>), Undef),
    Asset(Undef, Undef, Str(<<"7">>)) }
InspPool ==
  { Insp(Str(<<"7">>), Str(<<"a">>)),
    Insp(Str(<<"a">>), Undef),
    Insp(Str(<<"0">>), Str(<<"0">>)),
    Insp(Undef, Str(<<"7">>)),
    Insp(Str(<<" ", "0", "7">>), Str(<<"7">>)) }

SeqsUpTo(S, n) == UNION {[1..k -> S] : k \in 1..n}

MatchStart ==
  /\ pipeSegmentRefMap = EmptyMap
  /\ assetIdMap = EmptyMap
  /\ matched = EmptyMap
  /\ via = <<>>
  /\ mpc = "build"
  /\ mi = 1
  /\ ValidateIdle
  /\ ClockIdle
  /\ RouteIdle
  /\ OthersIdle

InitNorm ==
  /\ \E f \in NormFids : assets = <<Asset(f, Undef, Undef)>>
  /\ \E r \in NormRefs : inspections = <<Insp(r, Undef)>>
  /\ MatchStart

InitMatch ==
  /\ assets \in SeqsUpTo(AssetPool, MaxAssets)
  /\ inspections \in SeqsUpTo(InspPool, MaxInsp)
  /\ MatchStart

\* one pass of the build loop (mdbParser.ts 81-118)
BuildStep ==
  /\ mpc = "build"
  /\ pipeSegmentRefMap' = RefMapAdd(pipeSegmentRefMap, assets[mi], mi)
  /\ assetIdMap' = IdMapAdd(assetIdMap, assets[mi], mi)
  /\ IF mi = Len(assets) THEN mpc' = "match" /\ mi' = 1
     ELSE mpc' = "build" /\ mi' = mi + 1
  /\ UNCHANGED <<ovars, assets, inspections, matched, via, vvars, cvars, rvars>>

\* one pass of the inspection loop (mdbParser.ts 124-193)
MatchStep ==
  /\ mpc = "match"
  /\ LET pushes == Filed(pipeSegmentRefMap, assetIdMap, inspections[mi])
     IN /\ matched' = PushAll(matched, pushes, mi)
        /\ via' = Append(via, IF pushes = <<>> THEN "none" ELSE pushes[Len(pushes)][2])
  /\ IF mi = Len(inspections) THEN mpc' = "done" /\ mi' = mi
     ELSE mpc' = "match" /\ mi' = mi + 1
  /\ UNCHANGED <<ovars, assets, inspections, pipeSegmentRefMap, assetIdMap, vvars, cvars, rvars>>

MatchNext == BuildStep \/ MatchStep

SpecNorm == InitNorm /\ [][MatchNext]_vars
SpecMatch == InitMatch /\ [][MatchNext]_vars

\* inputs of the variant runs: two assets whose FIDs differ, among them
\* FIDs that differ only by letter case or by leading zeros, in both
\* orders, and one or two inspections that name one of them
VariantFids ==
  {Str(<<"7">>), Str(<<"0", "7">>), Str(<<"0", "0", "7">>), Str(<<"a">>), Str(<<"A">>),
   Str(<<"a", "A">>), Str(<<"A", "a">>)}

VariantRefs == VariantFids \cup {Str(<<" ", "7">>), Str(<<"A", " ">>)}

InitVariants ==
  /\ \E f, g \in VariantFids :
       /\ f # g
       /\ assets = <<Asset(f, Undef, Undef), Asset(g, Undef, Undef)>>
  /\ \E r \in VariantRefs : inspections = <<Insp(r, Undef)>>
  /\ MatchStart

SpecVariants == InitVariants /\ [][MatchNext]_vars

\* -------------------------------------------------------- validator runs
CoordElems == {Fin(n) : n \in -MaxCoord..MaxCoord} \cup {PosInf, NegInf, NaN, NotNum}
ShortElems == {Fin(45), NaN}

InitValidate ==
  /\ \/ vIn \in {[kind |-> k, elems |-> <<>>] : k \in {"null", "undefined", "notarray", "array"}}
     \/ \E e \in ShortElems : vIn = [kind |-> "array", elems |-> <<e>>]
     \/ \E a, b \in CoordElems : vIn = Coords(a, b)
  /\ vOut = NullCoords
  /\ vSwapped = FALSE
  /\ vExport = NullCoords
  /\ vpc = "call"
  /\ MatchIdle
  /\ ClockIdle
  /\ RouteIdle
  /\ OthersIdle

\* one call of validateCoordinates
Validate ==
  /\ vpc = "call"
  /\ vOut' = ValidateCoordinates(vIn)
  /\ vSwapped' = (ValidInput(vIn) /\ NeedsSwap(Val(vIn.elems[1]), Val(vIn.elems[2])))
  /\ vpc' = "done"
  /\ UNCHANGED <<ovars, vIn, vExport, mvars, cvars, rvars>>

\* exportUtils.ts 45-46: lateralsToGeoJSON validates again the coordinates
\* the route stored on the lateral (route.ts 191-197 stores only a non-null
\* result)
Revalidate ==
  /\ vpc = "done"
  /\ vOut # NullCoords
  /\ vExport' = ValidateCoordinates(vOut)
  /\ vpc' = "exported"
  /\ UNCHANGED <<ovars, vIn, vOut, vSwapped, mvars, cvars, rvars>>

ValidateNext == Validate \/ Revalidate

SpecValidate == InitValidate /\ [][ValidateNext]_vars

\* ------------------------------------------------------------ clock runs
ClockInputs ==
  {ClockNum(h) : h \in (-MaxClock * ClockScale)..(MaxClock * ClockScale)}
  \cup {ClockNull, ClockUndefined}

InitClock ==
  /\ cIn \in ClockInputs
  /\ cBearing = -1
  /\ cSide = Side(0, None)
  /\ cpc = "start"
  /\ MatchIdle
  /\ ValidateIdle
  /\ RouteIdle
  /\ OthersIdle

\* clockToBearing(cIn), called with a number
BearingCall ==
  /\ cpc \in {"start", "side"}
  /\ cIn.k = "num"
  /\ cBearing' = ClockToBearing(cIn)
  /\ cpc' = IF cpc = "start" THEN "bearing" ELSE "both"
  /\ UNCHANGED <<ovars, cIn, cSide, mvars, vvars, rvars>>

\* clockToSide(cIn)
SideCall ==
  /\ cpc \in {"start", "bearing"}
  /\ cSide' = ClockToSide(cIn)
  /\ cpc' = IF cpc = "start" THEN "side" ELSE "both"
  /\ UNCHANGED <<ovars, cIn, cBearing, mvars, vvars, rvars>>

ClockNext == BearingCall \/ SideCall

SpecClock == InitClock /\ [][ClockNext]_vars

\* ------------------------------------------------------------- route runs
\* route.ts 79-83: the first asset at or after position a that has
\* inspections filed under its key; Len(as) + 1 when there is none
RECURSIVE FirstAsset(_, _, _)
FirstAsset(m, as, a) ==
  IF a > Len(as) THEN a
  ELSE IF AssetInspections(m, as[a], a) # <<>> THEN a
  ELSE FirstAsset(m, as, a + 1)

\* route.ts 275: taps && taps.length > 0 && lateralLayerName
PromoteTaps(ts, layer) == ts # <<>> /\ Truthy(layer)

\* route.ts 293-298: assets.find by trimmed FID; 0 when nothing is found
RECURSIVE FindTapAsset(_, _, _)
FindTapAsset(as, tap, a) ==
  IF ~Truthy(tap.assetId) \/ a > Len(as) THEN 0
  ELSE IF Truthy(as[a].FID) /\ Trim(JsString(as[a].FID)) = Trim(JsString(tap.assetId))
       THEN a
       ELSE FindTapAsset(as, tap, a + 1)

\* object spread: the fields of bag override those of base
MergeProps(base, bag) ==
  [f \in (DOMAIN base) \cup (DOMAIN bag) |-> IF f \in DOMAIN bag THEN bag[f] ELSE base[f]]

TapSource == Str(<<"t", "a", "p">>)

\* route.ts 244-262.  Two fields are bookkeeping: from, the asset position
\* and inspection position the lateral was computed from, and projected,
\* the distance that was handed to the projector.
InspectionLateral(asset, idx, insp, j, n, nDefects, address) ==
  [id |-> <<"lateral", RouteAssetKeyStr(asset, idx), insp.tapDistance, insp.clockPosition, n>>,
   from |-> <<"inspection", idx, j>>,
   projected |-> ProjectedDistance(insp),
   coordinates |->
     EmittedCoordinates(CalculateLateralPosition(asset, ProjectedDistance(insp),
                                                 insp.clockPosition)),
   assetCoordinates |-> AssetCoordinates(asset),
   connectionPoint |->
     ValidatedStub(asset, ProjectedDistance(insp), insp.clockPosition).connectionPoint,
   stubLine |-> ValidatedStub(asset, ProjectedDistance(insp), insp.clockPosition).stubLine,
   assetId |-> RouteAssetKeyStr(asset, idx),
   tapDistance |-> insp.tapDistance,
   clockPosition |-> insp.clockPosition,
   address |-> address,
   properties |-> [assetId |-> RouteAssetKeyStr(asset, idx),
                   pipeSegmentReference |-> insp.pipeSegmentReference,
                   defectCount |-> Num(nDefects)]]

\* route.ts 288-375.  The field from is bookkeeping: the tap's position.
TapLateral(as, tap, i, layer) ==
  LET a == FindTapAsset(as, tap, 1)
  IN [id |-> <<"lateral-tap", layer, i - 1>>,
      from |-> <<"tap", i>>,
      projected |-> tap.distance,
      coordinates |-> EmittedCoordinates(tap.coordinates),
      assetCoordinates |-> IF a = 0 THEN NullCoords ELSE AssetCoordinates(as[a]),
      connectionPoint |->
        IF a = 0 THEN NullCoords
        ELSE ValidatedStub(as[a], tap.distance, tap.clockPosition).connectionPoint,
      stubLine |->
        IF a = 0 THEN <<>>
        ELSE ValidatedStub(as[a], tap.distance, tap.clockPosition).stubLine,
      assetId |-> tap.assetId,
      tapDistance |-> tap.distance,
      clockPosition |-> tap.clockPosition,
      address |-> tap.address,
      properties |->
        MergeProps([layerName |-> layer,
                    pipeSegmentReference |-> tap.address,
                    defectCode |-> tap.defectCode,
                    inspectionId |-> tap.inspectionId,
                    originalPipeSegmentReference |-> tap.pipeSegmentReference,
                    source |-> TapSource],
                   tap.properties)]

\* route.ts 115-138: defect.coordinates after the defects ds of one
\* inspection are processed against asset
RECURSIVE PositionDefects(_, _, _, _)
PositionDefects(dc, ds, all, asset) ==
  IF ds = <<>> THEN dc
  ELSE PositionDefects(
         IF DefectPositioned(asset, all[Head(ds)])
         THEN MapSet(dc, Head(ds),
                     CalculateLateralPosition(asset, all[Head(ds)].distance,
                                              all[Head(ds)].clockPosition))
         ELSE dc,
         Tail(ds), all, asset)

\* the pair of the double loop the route is at
CurAsset == assets[assetIndex]
CurList == AssetInspections(matched, CurAsset, assetIndex)
CurJ == CurList[inspIndex]
CurInsp == inspections[CurJ]
CurDefects == InspectionDefects(defects, CurInsp)
CurRaw == CalculateLateralPosition(CurAsset, ProjectedDistance(CurInsp), CurInsp.clockPosition)

\* where the route goes once the asset loop stands at position a
PhaseAt(a) ==
  IF a <= Len(assets) THEN "pairs"
  ELSE IF PromoteTaps(taps, lateralLayerName) THEN "taps"
  ELSE "respond"

\* route.ts 22-34: a body without an assets or inspections array
Reject400 ==
  /\ rpc = "start"
  /\ rBody # "ok"
  /\ response' = [status |-> 400,
                  error |-> IF rBody = "noAssets" THEN "Assets array is required"
                            ELSE "Inspections array is required"]
  /\ rpc' = "done"
  /\ UNCHANGED <<ovars, geocodingCache, mvars, vvars, cvars, rinputs, laterals, processedDefects,
                 defectCoordinates, processedCount, skippedCount, defectCount,
                 assetIndex, inspIndex, tapIndex, pending>>

\* route.ts 37-83: match, then enter the asset loop
RouteStart ==
  /\ rpc = "start"
  /\ rBody = "ok"
  /\ matched' = MatchInspectionsToAssets(inspections, assets)
  /\ assetIndex' = FirstAsset(matched', assets, 1)
  /\ inspIndex' = 1
  /\ rpc' = PhaseAt(assetIndex')
  /\ UNCHANGED <<ovars, geocodingCache, assets, inspections, pipeSegmentRefMap, assetIdMap, via, mpc, mi,
                 vvars, cvars, rinputs, laterals, processedDefects, defectCoordinates,
                 processedCount, skippedCount, defectCount, tapIndex, pending, response>>

\* route.ts 90-138: the defects of the current inspection are processed
\* whatever happens to the inspection afterwards
ProcessDefectsUncounted ==
  /\ processedDefects' = processedDefects \o CurDefects
  /\ defectCount' = defectCount
  /\ defectCoordinates' = PositionDefects(defectCoordinates, CurDefects, defects, CurAsset)

ProcessDefects ==
  /\ processedDefects' = processedDefects \o CurDefects
  /\ defectCount' = defectCount + Len(CurDefects)
  /\ defectCoordinates' = PositionDefects(defectCoordinates, CurDefects, defects, CurAsset)

\* the continue of the inspection loop, and of the asset loop after the
\* last inspection of the asset
AdvancePair ==
  /\ assetIndex' = IF inspIndex < Len(CurList) THEN assetIndex
                   ELSE FirstAsset(matched, assets, assetIndex + 1)
  /\ inspIndex' = IF inspIndex < Len(CurList) THEN inspIndex + 1 ELSE 1
  /\ rpc' = PhaseAt(assetIndex')

\* route.ts 140-148
PairMissingFields ==
  /\ rpc = "pairs"
  /\ MissingFields(CurInsp)
  /\ ProcessDefects
  /\ skippedCount' = skippedCount + 1
  /\ AdvancePair
  /\ UNCHANGED <<ovars, geocodingCache, mvars, vvars, cvars, rinputs, laterals, processedCount, tapIndex,
                 pending, response>>

\* route.ts 185-197 and 266-270: the position throws or fails validation
PairUnlocated ==
  /\ rpc = "pairs"
  /\ ~MissingFields(CurInsp)
  /\ \/ Threw(CurRaw)
     \/ EmittedCoordinates(CurRaw) = NullCoords
  /\ ProcessDefects
  /\ skippedCount' = skippedCount + 1
  /\ AdvancePair
  /\ UNCHANGED <<ovars, geocodingCache, mvars, vvars, cvars, rinputs, laterals, processedCount, tapIndex,
                 pending, response>>

\* route.ts 150-236: the lateral is computed and the route awaits the geocoder
PairLocated ==
  /\ rpc = "pairs"
  /\ ~MissingFields(CurInsp)
  /\ ~Threw(CurRaw)
  /\ EmittedCoordinates(CurRaw) # NullCoords
  /\ ProcessDefects
  /\ pending' = InspectionLateral(CurAsset, assetIndex, CurInsp, CurJ, processedCount,
                                  Len(CurDefects), "Address not found")
  /\ rpc' = "geocode"
  /\ UNCHANGED <<ovars, geocodingCache, mvars, vvars, cvars, rinputs, laterals, processedCount, skippedCount,
                 assetIndex, inspIndex, tapIndex, response>>

\* route.ts 244-265: the awaited geocoding settled with address; the lateral
\* is pushed and the loops go on
EmitPending(address) ==
  /\ laterals' = Append(laterals, [pending EXCEPT !.address = address])
  /\ processedCount' = processedCount + 1
  /\ pending' = NoLateral
  /\ AdvancePair

\* geocodingService.ts 15: the cache key, the coordinates to six decimals
CacheKey(lateral) == lateral.coordinates

NotFound == "Address not found"
GeocodingFailed == "Geocoding failed"
ServiceAddresses == {"1 Main St", NotFound}

\* geocodingService.ts 18-20: a cached result, the service is not contacted
GeocodeCached ==
  /\ rpc = "geocode"
  /\ CacheKey(pending) \in DOMAIN geocodingCache
  /\ EmitPending(geocodingCache[CacheKey(pending)])
  /\ UNCHANGED <<ovars, mvars, vvars, cvars, rinputs, processedDefects, defectCoordinates,
                 skippedCount, defectCount, tapIndex, response, geocodingCache>>

\* geocodingService.ts 22-24, route.ts 239-242: no token, the call rejects
\* and the lateral keeps the placeholder
GeocodeNoToken ==
  /\ rpc = "geocode"
  /\ CacheKey(pending) \notin DOMAIN geocodingCache
  /\ ~mapboxToken
  /\ EmitPending(NotFound)
  /\ UNCHANGED <<ovars, mvars, vvars, cvars, rinputs, processedDefects, defectCoordinates,
                 skippedCount, defectCount, tapIndex, response, geocodingCache>>

\* geocodingService.ts 26-69: the service answers; the result is cached
GeocodeFetched ==
  /\ rpc = "geocode"
  /\ CacheKey(pending) \notin DOMAIN geocodingCache
  /\ mapboxToken
  /\ \E address \in ServiceAddresses :
       /\ EmitPending(address)
       /\ geocodingCache' = MapSet(geocodingCache, CacheKey(pending), address)
  /\ UNCHANGED <<ovars, mvars, vvars, cvars, rinputs, processedDefects, defectCoordinates,
                 skippedCount, defectCount, tapIndex, response>>

\* geocodingService.ts 70-76: fetch fails; the sentinel is returned uncached
GeocodeFailure ==
  /\ rpc = "geocode"
  /\ CacheKey(pending) \notin DOMAIN geocodingCache
  /\ mapboxToken
  /\ EmitPending(GeocodingFailed)
  /\ UNCHANGED <<ovars, mvars, vvars, cvars, rinputs, processedDefects, defectCoordinates,
                 skippedCount, defectCount, tapIndex, response, geocodingCache>>

\* route.ts 231-236: the geocoder call is raced against a 5 s timer
NoTimer == FALSE

RaceHasTimer == TRUE

\* route.ts 233-235: the 5 s timer wins the race; the lateral keeps the
\* placeholder.  The abandoned call may still answer later and fill the cache.
GeocodeTimeout ==
  /\ rpc = "geocode"
  /\ RaceHasTimer
  /\ CacheKey(pending) \notin DOMAIN geocodingCache
  /\ mapboxToken
  /\ EmitPending(NotFound)
  /\ \/ UNCHANGED geocodingCache
     \/ \E address \in ServiceAddresses :
          geocodingCache' = MapSet(geocodingCache, CacheKey(pending), address)
  /\ UNCHANGED <<ovars, mvars, vvars, cvars, rinputs, processedDefects, defectCoordinates,
                 skippedCount, defectCount, tapIndex, response>>

AdvanceTap ==
  /\ tapIndex' = tapIndex + 1
  /\ rpc' = IF tapIndex < Len(taps) THEN "taps" ELSE "respond"

\* route.ts 282-286: the tap's coordinates fail validation; no counter moves
TapDropped ==
  /\ rpc = "taps"
  /\ EmittedCoordinates(taps[tapIndex].coordinates) = NullCoords
  /\ AdvanceTap
  /\ UNCHANGED <<ovars, mvars, vvars, cvars, rinputs, laterals, processedDefects,
                 defectCoordinates, processedCount, skippedCount, defectCount,
                 assetIndex, inspIndex, pending, response, geocodingCache>>

\* route.ts 288-378
TapPromoted ==
  /\ rpc = "taps"
  /\ EmittedCoordinates(taps[tapIndex].coordinates) # NullCoords
  /\ laterals' = Append(laterals, TapLateral(assets, taps[tapIndex], tapIndex, lateralLayerName))
  /\ processedCount' = processedCount + 1
  /\ AdvanceTap
  /\ UNCHANGED <<ovars, mvars, vvars, cvars, rinputs, processedDefects, defectCoordinates,
                 skippedCount, defectCount, assetIndex, inspIndex, pending, response,
                 geocodingCache>>

\* route.ts 386-405
Respond ==
  /\ rpc = "respond"
  /\ response' = [status |-> 200,
                  laterals |-> laterals,
                  defects |-> processedDefects,
                  stats |-> [assetsCount |-> Len(assets),
                             inspectionsCount |-> Len(inspections),
                             lateralsCount |-> Len(laterals),
                             defectsCount |-> defectCount,
                             processedCount |-> processedCount,
                             skippedCount |-> skippedCount,
                             tapBasedLateralsCount |-> Len(taps)]]
  /\ rpc' = "done"
  /\ UNCHANGED <<ovars, mvars, vvars, cvars, rinputs, laterals, processedDefects,
                 defectCoordinates, processedCount, skippedCount, defectCount,
                 assetIndex, inspIndex, tapIndex, pending, geocodingCache>>

RouteNext ==
  \/ Reject400
  \/ RouteStart
  \/ PairMissingFields
  \/ PairUnlocated
  \/ PairLocated
  \/ GeocodeCached
  \/ GeocodeNoToken
  \/ GeocodeFetched
  \/ GeocodeFailure
  \/ GeocodeTimeout
  \/ TapDropped
  \/ TapPromoted
  \/ Respond

\* inputs of the route runs
RouteAsset(f, i, g, p) ==
  [FID |-> f, id |-> i, altId |-> Undef, geomType |-> g, pos |-> p, stub |-> StubAt(p, p)]
RouteInsp(r, a, d, c, pid) ==
  [pipeSegmentReference |-> r, assetId |-> a, tapDistance |-> d, clockPosition |-> c,
   propInspectionId |-> pid, inspectionId |-> Undef,
   isImperial |-> Undef, rawIsImperial |-> Undef, propIsImperial |-> Undef]
Defect(i, iid, r, d, c) ==
  [id |-> i, inspectionId |-> iid, pipeSegmentReference |-> r, distance |-> d,
   clockPosition |-> c]
Tap(co, a, bag) ==
  [coordinates |-> co, assetId |-> a, distance |-> Num(5), clockPosition |-> ClockNum(3 * ClockScale),
   address |-> "9 Elm St", defectCode |-> Str(<<"T", "F">>), inspectionId |-> Str(<<"7">>),
   pipeSegmentReference |-> Str(<<"7">>), properties |-> bag]

NoBag == [f \in {} |-> Undef]

RouteAssetPool ==
  { RouteAsset(Str(<<"7">>), Undef, "Point", Coords(Fin(38), Fin(-122))),
    RouteAsset(Str(<<"A">>), Undef, "LineString", Coords(NaN, Fin(45))),
    RouteAsset(Undef, Str(<<"a">>), "Polygon", Coords(Fin(10), Fin(20))) }

RouteInspPool ==
  { RouteInsp(Str(<<"7">>), Undef, Num(10), ClockNum(3 * ClockScale), Str(<<"7">>)),
    RouteInsp(Str(<<"a">>), Str(<<"a">>), Num(10), ClockNum(12 * ClockScale), Undef),
    RouteInsp(Str(<<"7">>), Undef, Num(0), ClockNull, Undef),
    RouteInsp(Str(<<"0", "7">>), Undef, Num(10), ClockNum(9 * ClockScale), Str(<<"7">>)) }

DefectPool ==
  { Defect(1, Undef, Str(<<"7">>), Num(5), ClockNum(3 * ClockScale)),
    Defect(2, Str(<<"7">>), Undef, Undef, ClockUndefined) }

TapPool ==
  { Tap(Coords(Fin(45), Fin(-100)), Str(<<"7">>), [source |-> Str(<<"x">>)]),
    Tap(Coords(NaN, Fin(45)), Undef, NoBag) }

\* the sequences over S of length at most n without repetition
DistinctSeqsUpTo(S, n) ==
  {s \in UNION {[1..k -> S] : k \in 0..n} : \A x, y \in 1..Len(s) : x # y => s[x] # s[y]}

InitRoute ==
  /\ rBody \in {"ok", "noAssets", "noInspections"}
  /\ assets \in IF rBody = "noAssets" THEN {<<>>}
                ELSE DistinctSeqsUpTo(RouteAssetPool, MaxRouteAssets)
  /\ inspections \in IF rBody = "ok" THEN DistinctSeqsUpTo(RouteInspPool, MaxRouteInsp)
                     ELSE {<<>>}
  /\ defects \in IF rBody = "ok" THEN DistinctSeqsUpTo(DefectPool, MaxDefects) ELSE {<<>>}
  /\ taps \in IF rBody = "ok" THEN DistinctSeqsUpTo(TapPool, MaxTaps) ELSE {<<>>}
  /\ lateralLayerName \in IF rBody = "ok" THEN {Undef, Str(<<"L">>)} ELSE {Undef}
  /\ mapboxToken \in IF rBody = "ok" THEN BOOLEAN ELSE {TRUE}
  /\ geocodingCache = EmptyMap
  /\ RouteFresh
  /\ tapIndex = 1
  /\ rpc = "start"
  /\ pipeSegmentRefMap = EmptyMap
  /\ assetIdMap = EmptyMap
  /\ matched = EmptyMap
  /\ via = <<>>
  /\ mpc = "idle"
  /\ mi = 1
  /\ ValidateIdle
  /\ ClockIdle
  /\ OthersIdle

SpecRoute == InitRoute /\ [][RouteNext]_vars

\* ----------------------------------------------------- route case runs
\* One request of fixed shape around a first inspection that varies: a
\* point asset with FID "7" whose position validates, a line asset with
\* FID "A" whose position does not, the varying inspection and a second
\* one on the first asset, a third on the second asset, and two taps.
CaseAssets ==
  << RouteAsset(Str(<<"7">>), Undef, "Point", Coords(Fin(38), Fin(-122))),
     RouteAsset(Str(<<"A">>), Undef, "LineString", Coords(NaN, Fin(45))) >>

CaseBackground ==
  << RouteInsp(Str(<<"0", "7">>), Undef, Num(10), ClockNum(9 * ClockScale), Str(<<"7">>)),
     RouteInsp(Str(<<"a">>), Str(<<"a">>), Num(10), ClockNum(12 * ClockScale), Undef) >>

CaseTaps ==
  << Tap(Coords(Fin(45), Fin(-100)), Str(<<"7">>), [source |-> Str(<<"x">>)]),
     Tap(Coords(NaN, Fin(45)), Undef, NoBag) >>

\* the first inspection: every combination of a missing, zero or positive
\* tapDistance with a numeric, null or undefined clockPosition
FieldVariants ==
  {RouteInsp(Str(<<"7">>), Undef, d, c, Undef) :
     d \in {Undef, Num(0), Num(10)},
     c \in {ClockNum(3 * ClockScale), ClockNull, ClockUndefined}}

\* the first inspection with an imperial flag in one of its three places
ImperialFlags == {Num(1), Bool(TRUE), Num(0)}
Measured == RouteInsp(Str(<<"7">>), Undef, Num(10), ClockNum(3 * ClockScale), Undef)
ImperialVariants ==
  {[Measured EXCEPT !.isImperial = f] : f \in ImperialFlags}
  \cup {[Measured EXCEPT !.rawIsImperial = f] : f \in ImperialFlags}
  \cup {[Measured EXCEPT !.propIsImperial = f] : f \in ImperialFlags}

\* the first inspection as extractInspectionData returns it, with
\* inspectionId and no property bag, and the same with a property bag that
\* repeats the id
IdVariants ==
  {[Measured EXCEPT !.inspectionId = Str(<<"7">>)],
   [Measured EXCEPT !.inspectionId = Str(<<"7">>), !.propInspectionId = Str(<<"7">>)]}

\* the first inspection naming its asset by assetId only
ByAssetId == RouteInsp(Undef, Str(<<"7">>), Num(10), ClockNum(3 * ClockScale), Undef)

CaseVariants == FieldVariants \cup ImperialVariants \cup IdVariants \cup {ByAssetId}

\* the first asset with each way its stub can fail: an error inside turf,
\* a connectionPoint, a stub end, or both, that do not validate
StubVariants ==
  {ProjectorThrow,
   StubAt(Coords(NaN, Fin(-122)), Coords(Fin(38), Fin(-122))),
   StubAt(Coords(Fin(38), Fin(-122)), Coords(NaN, Fin(-122))),
   StubAt(Coords(NaN, Fin(-122)), Coords(NaN, Fin(-122)))}

\* the first asset without FID, its id a string, a blank-padded string or
\* a number
KeyVariants ==
  {<<RouteAsset(Undef, i, "Point", Coords(Fin(38), Fin(-122)))>> \o Tail(CaseAssets) :
     i \in {Str(<<"7">>), Str(<<" ", "7">>), Num(7)}}

AssetVariants ==
  {CaseAssets} \cup {<<[CaseAssets[1] EXCEPT !.stub = sv]>> \o Tail(CaseAssets) : sv \in StubVariants}

InitCases ==
  /\ rBody \in {"ok", "noAssets", "noInspections"}
  /\ inspections \in IF rBody = "ok" THEN {<<x>> \o CaseBackground : x \in CaseVariants}
                     ELSE {<<>>}
  /\ defects \in IF rBody = "ok" THEN {<<>>} \cup {<<d>> : d \in DefectPool} ELSE {<<>>}
  /\ assets \in IF rBody = "noAssets" THEN {<<>>}
                ELSE IF rBody = "ok" /\ inspections[1] = Measured /\ defects = <<>>
                THEN AssetVariants
                ELSE IF rBody = "ok" /\ inspections[1] = ByAssetId /\ defects = <<>>
                THEN {CaseAssets} \cup KeyVariants
                ELSE {CaseAssets}
  /\ taps = IF rBody = "ok" THEN CaseTaps ELSE <<>>
  /\ lateralLayerName = IF rBody = "ok" THEN Str(<<"L">>) ELSE Undef
  /\ mapboxToken \in IF rBody = "ok" THEN BOOLEAN ELSE {TRUE}
  /\ geocodingCache = EmptyMap
  /\ RouteFresh
  /\ tapIndex = 1
  /\ rpc = "start"
  /\ pipeSegmentRefMap = EmptyMap
  /\ assetIdMap = EmptyMap
  /\ matched = EmptyMap
  /\ via = <<>>
  /\ mpc = "idle"
  /\ mi = 1
  /\ ValidateIdle
  /\ ClockIdle
  /\ OthersIdle

SpecCases == InitCases /\ [][RouteNext]_vars

\* What the runtime guarantees about the race of route.ts 226-242: a cache
\* hit resolves, a missing token rejects, and the 5 s timer fires.  Nothing
\* obliges the service to answer, so its two outcomes carry no fairness.
RaceSettles ==
  \/ GeocodeCached
  \/ GeocodeNoToken
  \/ GeocodeTimeout

SpecCasesLive == InitCases /\ [][RouteNext]_vars /\ WF_vars(RaceSettles)

\* ------------------------------------------------------- projector runs
Geometry(ty, line) == [type |-> ty, line |-> line]

Tangents == {0, 135, -90, 180}
LineTypes == {"LineString", "MultiLineString"}
OtherTypes == {"Polygon", "MultiPoint"}

Geometries ==
  {Geometry(ty, Line(l, t)) : ty \in LineTypes, l \in 0..MaxLine, t \in Tangents}
  \cup {Geometry(ty, Line(0, 0)) : ty \in {"Point"} \cup OtherTypes}

ProjectorClocks ==
  {ClockNum(h * ClockScale) : h \in {-3, 0, 1, 3, 6, 9, 11, 12}}
  \cup {ClockNull, ClockUndefined}

InitProjector ==
  /\ pGeometry \in Geometries
  /\ pDistance \in (-MaxDistance)..MaxDistance
  /\ pClock \in ProjectorClocks
  /\ pTurfThrows \in BOOLEAN
  /\ pPosition = NoResult
  /\ pStub = NoResult
  /\ ppc = "start"
  /\ MatchIdle
  /\ ValidateIdle
  /\ ClockIdle
  /\ RouteIdle
  /\ TapIdle
  /\ ExtrasIdle

\* calculateLateralPosition(asset, pDistance, pClock)
PositionCall ==
  /\ ppc \in {"start", "stub"}
  /\ pPosition' = LateralPositionOf(pGeometry, pDistance, pClock, pTurfThrows)
  /\ ppc' = IF ppc = "start" THEN "position" ELSE "both"
  /\ UNCHANGED <<pGeometry, pDistance, pClock, pTurfThrows, pStub,
                 mvars, vvars, cvars, rvars, tvars, xvars>>

\* calculateLateralStub(asset, pDistance, pClock)
StubCall ==
  /\ ppc \in {"start", "position"}
  /\ pStub' = LateralStubOf(pGeometry, pDistance, pClock, pTurfThrows)
  /\ ppc' = IF ppc = "start" THEN "stub" ELSE "both"
  /\ UNCHANGED <<pGeometry, pDistance, pClock, pTurfThrows, pPosition,
                 mvars, vvars, cvars, rvars, tvars, xvars>>

ProjectorNext == PositionCall \/ StubCall

SpecProjector == InitProjector /\ [][ProjectorNext]_vars

\* ------------------------------------------------- tap classifier runs
MaxCode == 3       \* longest defect code of the tap classifier runs
CodeChars == {"T", "t", "F", "f", "B", "S", "1", " "}

MapDefect(c, p, o, d) == [defectCode |-> c, PACP_Code |-> p, Code |-> o, distance |-> d]

DefectCodes == {Undef} \cup {Str(s) : s \in UNION {[1..k -> CodeChars] : k \in 0..MaxCode}}

\* DefectRecord.distance is a number or absent; NaN is a number too
Distances == {Undef, Num(0), Num(5), NaNV}

MapDefectPool ==
  {MapDefect(c, p, o, d) :
     c \in DefectCodes,
     p \in {Undef, Str(<<"T", "S">>)},
     o \in {Undef, Str(<<"t", "b", " ">>)},
     d \in Distances}

OtherDefect == MapDefect(Str(<<"T", "F", "1">>), Undef, Undef, Num(5))

InitTaps ==
  /\ \E d \in MapDefectPool : mapDefects \in {<<d>>, <<OtherDefect, d>>}
  /\ tapDefects = <<>>
  /\ tpc = "start"
  /\ MatchIdle
  /\ ValidateIdle
  /\ ClockIdle
  /\ RouteIdle
  /\ ProjectorIdle
  /\ ExtrasIdle

\* lines 119-124: defects.filter(...)
FilterTaps ==
  /\ tpc = "start"
  /\ tapDefects' = FilterTapDefects(mapDefects)
  /\ tpc' = "filtered"
  /\ UNCHANGED <<mapDefects, mvars, vvars, cvars, rvars, pvars, xvars>>

SpecTaps == InitTaps /\ [][FilterTaps]_vars

\* ------------------------------------------ MapView: the tap assembler
\* part_000 213-300: the effect that geocodes the tap points and reports the
\* TapInspection list to the parent
MaxChanges == 4
MaxRuns == 2

TapPoint(i, code, co) == [defect |-> [id |-> i, defectCode |-> code], coordinates |-> co]

TapHere == Coords(Fin(38), Fin(-122))
TapThere == Coords(Fin(39), Fin(-121))

\* the tap point lists the memo of part_000 105-205 hands to the effect: two
\* lists that differ in a field the key leaves out, two in the order only
TapPointLists ==
  {<<>>,
   <<TapPoint(1, "TF", TapHere)>>,
   <<TapPoint(1, "TB", TapHere)>>,
   <<TapPoint(2, "TF", TapThere)>>,
   <<TapPoint(1, "TF", TapHere), TapPoint(2, "TF", TapThere)>>,
   <<TapPoint(2, "TF", TapThere), TapPoint(1, "TF", TapHere)>>}

\* part_000 228: `${t.defect.id}-${t.coordinates[0]}-${t.coordinates[1]}`
\* joined with '|'; the empty string for no points
TapPointsKey(points) ==
  [n \in 1..Len(points) |-> <<points[n].defect.id, points[n].coordinates>>]

\* part_000 265-282
TapInspectionOf(point, address) ==
  [id |-> <<"tap", point.defect.id>>,
   coordinates |-> point.coordinates,
   defectCode |-> point.defect.defectCode,
   address |-> address]

\* part_000 249-262: the address of the race, 'Address not found' when the
\* race rejects
TapAddresses == ServiceAddresses \cup {GeocodingFailed}

RemoveAt(seq, k) == SubSeq(seq, 1, k - 1) \o SubSeq(seq, k + 1, Len(seq))

\* part_000 218-298: the effect body up to the first await of geocodeTaps
TapPointsChange ==
  /\ changes < MaxChanges
  /\ \E new \in TapPointLists :
       /\ tapPoints' = new
       /\ changes' = changes + 1
       /\ IF Len(new) = 0
            THEN /\ tapInspections' = <<>>
                 /\ reportedTaps' = <<>>
                 /\ UNCHANGED <<previousTapPointsRef, geocodeRuns, isGeocodingTaps>>
            ELSE IF previousTapPointsRef = TapPointsKey(new)
            THEN UNCHANGED <<previousTapPointsRef, geocodeRuns, isGeocodingTaps,
                             tapInspections, reportedTaps>>
            ELSE /\ Len(geocodeRuns) < MaxRuns
                 /\ previousTapPointsRef' = TapPointsKey(new)
                 /\ geocodeRuns' = Append(geocodeRuns, [points |-> new, out |-> <<>>])
                 /\ isGeocodingTaps' = TRUE
                 /\ UNCHANGED <<tapInspections, reportedTaps>>
  /\ UNCHANGED <<mvars, vvars, cvars, rvars, pvars, tvars, gvars, evars>>

\* part_000 241-285: one round of the loop of a run settles, another tap
\* point follows
TapGeocoded ==
  /\ \E r \in 1..Len(geocodeRuns), address \in TapAddresses :
       LET run == geocodeRuns[r]
           point == run.points[Len(run.out) + 1]
       IN /\ Len(run.out) + 1 < Len(run.points)
          /\ geocodeRuns' =
               [geocodeRuns EXCEPT ![r].out = Append(@, TapInspectionOf(point, address))]
  /\ UNCHANGED <<tapPoints, previousTapPointsRef, tapInspections, isGeocodingTaps,
                 reportedTaps, changes, mvars, vvars, cvars, rvars, pvars, tvars, gvars, evars>>

\* part_000 241-294: the last round of a run settles; the run stores and
\* reports its list
TapRunFinishes ==
  /\ \E r \in 1..Len(geocodeRuns), address \in TapAddresses :
       LET run == geocodeRuns[r]
           point == run.points[Len(run.out) + 1]
           tapsWithAddresses == Append(run.out, TapInspectionOf(point, address))
       IN /\ Len(run.out) + 1 = Len(run.points)
          /\ tapInspections' = tapsWithAddresses
          /\ isGeocodingTaps' = FALSE
          /\ reportedTaps' = tapsWithAddresses
          /\ geocodeRuns' = RemoveAt(geocodeRuns, r)
  /\ UNCHANGED <<tapPoints, previousTapPointsRef, changes,
                 mvars, vvars, cvars, rvars, pvars, tvars, gvars, evars>>

InitAssembler ==
  /\ MatchIdle
  /\ ValidateIdle
  /\ ClockIdle
  /\ RouteIdle
  /\ ProjectorIdle
  /\ TapIdle
  /\ ExtrasIdle

AssemblerNext == TapPointsChange \/ TapGeocoded \/ TapRunFinishes

SpecAssembler == InitAssembler /\ [][AssemblerNext]_vars

\* the reported list has one TapInspection per tap point, in the order of
\* the tap points
Corresponds(reported, points) ==
  /\ Len(reported) = Len(points)
  /\ \A n \in 1..Len(points) :
       /\ reported[n].id = <<"tap", points[n].defect.id>>
       /\ reported[n].coordinates = points[n].coordinates

\* C27: once no geocoding run is in flight, the list reported through
\* onTapsChange corresponds one-to-one and in order to the current tap points.
C27_ReportedFollowsTapPoints ==
  geocodeRuns = <<>> => Corresponds(reportedTaps, tapPoints)

\* a run of an older list that finishes after the run of the newer one
C27_StaleRunLast ==
  [][(TapRunFinishes /\ geocodeRuns' = <<>>) => Corresponds(reportedTaps', tapPoints')]_vars

\* a non-empty list seen again after the empty one
C27_ReportedAgain ==
  (geocodeRuns = <<>> /\ tapPoints # <<>> /\ previousTapPointsRef = TapPointsKey(tapPoints))
     => reportedTaps # <<>>

\* ------------------------------------------- geocodingService.ts
\* reverseGeocode and clearGeocodingCache as callers see them: calls may
\* overlap, each fetch settles on its own
MaxEvents == 6
MaxFlights == 2

\* coordinates in units of 1e-7 degree
GeoInputs == {-4, 6, 14}

\* Number.prototype.toFixed(6): the sign is kept when the value rounds to
\* zero ("-0.000000")
ToFixed6(x) == [neg |-> x < 0, micro |-> (Abs(x) + 5) \div 10]

\* geocodingService.ts 15
GeoCacheKey(lng, lat) == <<ToFixed6(lng), ToFixed6(lat)>>

NoKey == <<>>
Event(op, key, result) == [op |-> op, key |-> key, result |-> result]

CacheAfterFailureStored(cache, key) == MapSet(cache, key, GeocodingFailed)

\* geocodingService.ts 70-76: the catch block returns the sentinel and
\* leaves the cache alone
CacheAfterFailure(cache, key) == cache

rrest == <<rinputs, laterals, processedDefects, defectCoordinates, processedCount,
           skippedCount, defectCount, rpc, assetIndex, inspIndex, tapIndex, pending,
           response>>

\* geocodingService.ts 11-28: reverseGeocode up to its first await
ReverseGeocode ==
  /\ Len(gLog) < MaxEvents
  /\ \E lng \in GeoInputs, lat \in {0} :
       LET cacheKey == GeoCacheKey(lng, lat)
       IN IF cacheKey \in DOMAIN geocodingCache
          THEN /\ gLog' = Append(gLog, Event("hit", cacheKey, geocodingCache[cacheKey]))
               /\ UNCHANGED gCalls
          ELSE IF ~mapboxToken
          THEN /\ gLog' = Append(gLog, Event("throw", cacheKey, "Mapbox access token is not configured"))
               /\ UNCHANGED gCalls
          ELSE /\ Len(gCalls) < MaxFlights
               /\ gCalls' = Append(gCalls, cacheKey)
               /\ gLog' = Append(gLog, Event("fetch", cacheKey, ""))
  /\ UNCHANGED <<geocodingCache, rrest, mvars, vvars, cvars, pvars, tvars, avars, evars>>

\* geocodingService.ts 28-69: the service answered; the result is cached
\* and returned
FetchSucceeds ==
  /\ Len(gLog) < MaxEvents
  /\ \E c \in 1..Len(gCalls), address \in ServiceAddresses :
       /\ geocodingCache' = MapSet(geocodingCache, gCalls[c], address)
       /\ gLog' = Append(gLog, Event("ok", gCalls[c], address))
       /\ gCalls' = RemoveAt(gCalls, c)
  /\ UNCHANGED <<rrest, mvars, vvars, cvars, pvars, tvars, avars, evars>>

\* geocodingService.ts 28-33, 70-76: fetch rejected, the status was not ok
\* or the body was no JSON
FetchFails ==
  /\ Len(gLog) < MaxEvents
  /\ \E c \in 1..Len(gCalls) :
       /\ geocodingCache' = CacheAfterFailure(geocodingCache, gCalls[c])
       /\ gLog' = Append(gLog, Event("failed", gCalls[c], GeocodingFailed))
       /\ gCalls' = RemoveAt(gCalls, c)
  /\ UNCHANGED <<rrest, mvars, vvars, cvars, pvars, tvars, avars, evars>>

\* geocodingService.ts 91-96
ClearGeocodingCache ==
  /\ Len(gLog) < MaxEvents
  /\ geocodingCache' = EmptyMap
  /\ gLog' = Append(gLog, Event("clear", NoKey, ""))
  /\ UNCHANGED <<gCalls, rrest, mvars, vvars, cvars, pvars, tvars, avars, evars>>

InitGeocoder ==
  /\ mapboxToken \in BOOLEAN
  /\ geocodingCache = EmptyMap
  /\ rBody = "none"
  /\ defects = <<>>
  /\ taps = <<>>
  /\ lateralLayerName = Undef
  /\ tapIndex = 1
  /\ RouteFresh
  /\ rpc = "idle"
  /\ MatchIdle
  /\ ValidateIdle
  /\ ClockIdle
  /\ ProjectorIdle
  /\ TapIdle
  /\ ExtrasIdle

GeocoderNext == ReverseGeocode \/ FetchSucceeds \/ FetchFails \/ ClearGeocodingCache

SpecGeocoder == InitGeocoder /\ [][GeocoderNext]_vars

CallOps == {"hit", "throw", "fetch"}

\* what the cache may change to in a step that logged e
CacheWrittenBy(e) ==
  geocodingCache' # geocodingCache =>
    \/ e.op = "ok" /\ geocodingCache' = MapSet(geocodingCache, e.key, e.result)
    \/ e.op = "clear" /\ geocodingCache' = EmptyMap

\* a call for a cached key answers from the cache and starts no fetch
ServedFromCache(e) ==
  (e.op \in CallOps /\ e.key \in DOMAIN geocodingCache) =>
     /\ e.op = "hit"
     /\ e.result = geocodingCache[e.key]
     /\ gCalls' = gCalls

\* an earlier call for the key ended in the sentinel or in the token error
FailedBefore(key) ==
  \E n \in 1..Len(gLog) : gLog[n].key = key /\ gLog[n].op \in {"failed", "throw"}

\* C28 as stated: the cache is written only by a successful response and
\* never holds the sentinel or the token error; a call for a key that is not
\* cached and for which an earlier call ended in the sentinel or the token
\* error contacts the service; a call for a cached key returns the cached
\* result without contacting the service, until the cache is cleared.
C28_AsStated ==
  /\ [](\A k \in DOMAIN geocodingCache : geocodingCache[k] \in ServiceAddresses)
  /\ [][LET e == gLog'[Len(gLog')]
        IN /\ CacheWrittenBy(e)
           /\ ServedFromCache(e)
           /\ (e.op \in CallOps /\ e.key \notin DOMAIN geocodingCache
                  /\ FailedBefore(e.key)) =>
                 (e.op = "fetch" /\ gCalls' = Append(gCalls, e.key))]_vars

\* C28: as above, except that a call for a key that is not cached contacts
\* the service only when a token is configured and throws the token error
\* again when none is.
C28_CacheOnlySuccess ==
  /\ [](\A k \in DOMAIN geocodingCache : geocodingCache[k] \in ServiceAddresses)
  /\ [][LET e == gLog'[Len(gLog')]
        IN /\ CacheWrittenBy(e)
           /\ ServedFromCache(e)
           /\ (e.op \in CallOps /\ e.key \notin DOMAIN geocodingCache) =>
                 IF mapboxToken
                 THEN e.op = "fetch" /\ gCalls' = Append(gCalls, e.key)
                 ELSE e.op = "throw" /\ gCalls' = gCalls]_vars

\* a key whose fetch failed is fetched again, answered, served from the
\* cache, and fetched once more after the cache was cleared
C28_Witness ==
  \E a, b, c, d, f \in 1..Len(gLog) :
     /\ a < b /\ b < c /\ c < d /\ d < f
     /\ gLog[a].op = "failed"
     /\ gLog[b].op = "fetch" /\ gLog[b].key = gLog[a].key
     /\ gLog[c].op = "ok" /\ gLog[c].key = gLog[a].key
     /\ gLog[d].op = "hit" /\ gLog[d].key = gLog[a].key
     /\ gLog[f].op = "clear"

\* a call without a token that follows a call without a token for the same
\* key
C28_NoTokenAgain ==
  \E a, b \in 1..Len(gLog) :
     /\ a < b
     /\ gLog[a].op = "throw"
     /\ gLog[b].op = "throw" /\ gLog[b].key = gLog[a].key

\* ------------------------------------------------ exportUtils.ts
\* lateralsToGeoJSON and validateGeoJSONExport
MaxExport == 2

AbsentCoords == [kind |-> "undefined", elems |-> <<>>]
NoStubLine == [present |-> FALSE, points |-> <<>>]
StubLineOf(points) == [present |-> TRUE, points |-> points]

ExportLateral(co, stub, ac) ==
  [coordinates |-> co, stubLine |-> stub, assetCoordinates |-> ac]

GoodPoint == Coords(Fin(-122), Fin(38))
GoodEnd == Coords(Fin(-121), Fin(38))
BadPoint == Coords(NaN, Fin(38))
WestPoint == Coords(Fin(-200), Fin(45))

ExportCoords == {GoodPoint, BadPoint, WestPoint}
ExportStubs ==
  {NoStubLine, StubLineOf(<<GoodPoint, GoodEnd>>), StubLineOf(<<BadPoint, GoodEnd>>),
   StubLineOf(<<GoodPoint>>)}
ExportAssetCoords == {AbsentCoords, GoodPoint, BadPoint}

ExportPool ==
  {ExportLateral(co, stub, ac) :
     co \in ExportCoords, stub \in ExportStubs, ac \in ExportAssetCoords}

\* exportUtils.ts 8-17
GetAssetReferencePoint(lateral) ==
  IF lateral.assetCoordinates.kind \in {"undefined", "null"} THEN NullCoords
  ELSE ValidateCoordinates(lateral.assetCoordinates)

\* lat < -90 || lat > 90 on a validated pair
LatOutside(c) == Val(c.elems[2]) < -90 \/ Val(c.elems[2]) > 90

PointGeometry(c) == [type |-> "Point", coordinates |-> <<c>>]
LineGeometry(a, b) == [type |-> "LineString", coordinates |-> <<a, b>>]

\* exportUtils.ts 84-142: the geometry of a lateral whose coordinates
\* validated to lateralCoords
ExportGeometry(lateral, lateralCoords) ==
  IF lateral.stubLine.present /\ Len(lateral.stubLine.points) = 2
  THEN LET validatedStubStart == ValidateCoordinates(lateral.stubLine.points[1])
           validatedStubEnd == ValidateCoordinates(lateral.stubLine.points[2])
       IN IF validatedStubStart # NullCoords /\ validatedStubEnd # NullCoords
          THEN IF ~LatOutside(validatedStubStart) /\ ~LatOutside(validatedStubEnd)
               THEN LineGeometry(validatedStubStart, validatedStubEnd)
               ELSE PointGeometry(lateralCoords)
          ELSE PointGeometry(lateralCoords)
  ELSE LET assetRefPoint == GetAssetReferencePoint(lateral)
       IN IF assetRefPoint # NullCoords
          THEN IF LatOutside(assetRefPoint)
               THEN PointGeometry(lateralCoords)
               ELSE LineGeometry(assetRefPoint, lateralCoords)
          ELSE PointGeometry(lateralCoords)

NoFeature == [id |-> 0]

\* exportUtils.ts 37-162: the callback of laterals.map
FeatureOf(lateral, id) ==
  LET lateralCoords == ValidateCoordinates(lateral.coordinates)
  IN IF lateralCoords = NullCoords THEN NoFeature
     ELSE IF LatOutside(lateralCoords) THEN NoFeature
     ELSE [id |-> id, geometry |-> ExportGeometry(lateral, lateralCoords)]

IsFeature(f) == f # NoFeature

\* exportUtils.ts 23-194
LateralsToGeoJSON(list) ==
  SelectSeq([n \in 1..Len(list) |-> FeatureOf(list[n], n)], IsFeature)

IsNaNElem(e) == e.k \in {"nan", "str"}

\* exportUtils.ts 286-312, 340-366: the errors of one coordinate pair
PointErrors(id, c) ==
  IF c.kind # "array" \/ Len(c.elems) < 2 THEN <<[featureId |-> id, error |-> "array"]>>
  ELSE IF IsNaNElem(c.elems[1]) \/ IsNaNElem(c.elems[2])
       THEN <<[featureId |-> id, error |-> "NaN"]>>
  ELSE IF LatOutside(c) THEN <<[featureId |-> id, error |-> "latitude"]>>
  ELSE <<>>

\* exportUtils.ts 314-321, 368-375
PointWarnings(id, c) ==
  IF /\ c.kind = "array" /\ Len(c.elems) >= 2
     /\ ~IsNaNElem(c.elems[1]) /\ ~IsNaNElem(c.elems[2])
     /\ (Val(c.elems[1]) < -180 \/ Val(c.elems[1]) > 180)
  THEN <<[featureId |-> id, warning |-> "longitude"]>>
  ELSE <<>>

RECURSIVE Gather(_, _, _)
\* the concatenation of Of(id, c) over the pairs of a coordinate list
Gather(Of(_, _), id, cs) ==
  IF cs = <<>> THEN <<>> ELSE Of(id, Head(cs)) \o Gather(Of, id, Tail(cs))

\* exportUtils.ts 283-383: the callback of features.forEach
FeatureErrors(f) ==
  IF f.geometry.type = "LineString" /\ Len(f.geometry.coordinates) < 2
  THEN <<[featureId |-> f.id, error |-> "linestring"]>>
  ELSE Gather(PointErrors, f.id, f.geometry.coordinates)

FeatureWarnings(f) ==
  IF f.geometry.type = "LineString" /\ Len(f.geometry.coordinates) < 2
  THEN <<>>
  ELSE Gather(PointWarnings, f.id, f.geometry.coordinates)

RECURSIVE GatherFeatures(_, _)
GatherFeatures(Of(_), fs) ==
  IF fs = <<>> THEN <<>> ELSE Of(Head(fs)) \o GatherFeatures(Of, Tail(fs))

IsPointFeature(f) == f.geometry.type = "Point"
IsLineFeature(f) == f.geometry.type = "LineString"

\* exportUtils.ts 258-409
ValidateGeoJSONExport(features) ==
  LET errors == GatherFeatures(FeatureErrors, features)
  IN [isValid |-> Len(errors) = 0,
      errors |-> errors,
      warnings |-> GatherFeatures(FeatureWarnings, features),
      pointFeatures |-> Len(SelectSeq(features, IsPointFeature)),
      lineStringFeatures |-> Len(SelectSeq(features, IsLineFeature))]

InitExport ==
  /\ eLaterals \in UNION {[1..n -> ExportPool] : n \in 0..MaxExport}
  /\ eFeatures = <<>>
  /\ eReport = NoReport
  /\ epc = "start"
  /\ MatchIdle
  /\ ValidateIdle
  /\ ClockIdle
  /\ RouteIdle
  /\ ProjectorIdle
  /\ TapIdle
  /\ AssemblerIdle
  /\ GeocoderIdle

\* lateralsToGeoJSON(laterals)
ConvertLaterals ==
  /\ epc = "start"
  /\ eFeatures' = LateralsToGeoJSON(eLaterals)
  /\ epc' = "converted"
  /\ UNCHANGED <<eLaterals, eReport, mvars, vvars, cvars, rvars, pvars, tvars, avars, gvars>>

\* validateGeoJSONExport(geojson)
ValidateExport ==
  /\ epc = "converted"
  /\ eReport' = ValidateGeoJSONExport(eFeatures)
  /\ epc' = "validated"
  /\ UNCHANGED <<eLaterals, eFeatures, mvars, vvars, cvars, rvars, pvars, tvars, avars, gvars>>

ExportNext == ConvertLaterals \/ ValidateExport

SpecExport == InitExport /\ [][ExportNext]_vars

\* a pair of numbers that are not NaN with the latitude in [-90, 90]
GoodPair(c) ==
  /\ c.kind = "array" /\ Len(c.elems) = 2
  /\ ~IsNaNElem(c.elems[1]) /\ ~IsNaNElem(c.elems[2])
  /\ ~LatOutside(c)

\* the lateral's coordinates pass validateCoordinates
Exportable(lateral) == ValidateCoordinates(lateral.coordinates) # NullCoords

\* a two-point stub line both of whose points pass validateCoordinates
ValidStubLine(lateral) ==
  /\ lateral.stubLine.present
  /\ Len(lateral.stubLine.points) = 2
  /\ \A n \in 1..2 : ValidateCoordinates(lateral.stubLine.points[n]) # NullCoords

\* asset coordinates that pass validateCoordinates
ValidAssetReference(lateral) ==
  /\ lateral.assetCoordinates.kind = "array"
  /\ ValidateCoordinates(lateral.assetCoordinates) # NullCoords

\* the report is valid, and every feature is a Point or a two-point
\* LineString of good pairs
ExportReportValid ==
  /\ eReport.isValid /\ eReport.errors = <<>>
  /\ \A n \in 1..Len(eFeatures) :
       LET g == eFeatures[n].geometry
       IN /\ \/ g.type = "Point" /\ Len(g.coordinates) = 1
             \/ g.type = "LineString" /\ Len(g.coordinates) = 2
          /\ \A m \in 1..Len(g.coordinates) : GoodPair(g.coordinates[m])

\* the features are those of the exportable laterals, in order
ExportOmitsInvalid ==
  /\ \A n \in 1..Len(eFeatures) : Exportable(eLaterals[eFeatures[n].id])
  /\ \A l \in 1..Len(eLaterals) :
       Exportable(eLaterals[l]) => \E n \in 1..Len(eFeatures) : eFeatures[n].id = l
  /\ \A n, m \in 1..Len(eFeatures) : n < m => eFeatures[n].id < eFeatures[m].id

\* LineString exactly when a valid stub line or a valid asset reference exists
ExportGeometryRule ==
  \A n \in 1..Len(eFeatures) :
     LET lateral == eLaterals[eFeatures[n].id]
     IN eFeatures[n].geometry.type = "LineString"
          <=> (ValidStubLine(lateral) \/ ValidAssetReference(lateral))

\* C29: the report of validateGeoJSONExport(lateralsToGeoJSON(laterals)) is
\* valid with no errors; every feature is a Point or a two-point LineString
\* of non-NaN coordinates with latitude in [-90, 90]; laterals whose
\* coordinates fail validation are omitted; the geometry is a LineString
\* exactly when a valid stub line or a valid asset reference point exists.
C29_ExportValid ==
  epc = "validated" => (ExportReportValid /\ ExportOmitsInvalid /\ ExportGeometryRule)

\* the parts of C29 that do not concern the choice of the geometry
C29_ReportAndOmission ==
  epc = "validated" => (ExportReportValid /\ ExportOmitsInvalid)

\* ------------------------------------------------- claims on the matcher
Done == mpc = "done"

\* r equals f after trimming, ignoring letter case, or, both being digit
\* strings, ignoring leading zeros
RefEqualsFid(r, f) ==
  LET fs == Trim(JsString(f))
      rs == Trim(JsString(r))
  IN \/ fs = rs
     \/ ToLowerCase(fs) = ToLowerCase(rs)
     \/ IsDigitStr(fs) /\ IsDigitStr(rs) /\ DigitsToNat(fs) = DigitsToNat(rs)

\* inspection j is filed under key k, once, and under no other key
FiledUnder(j, k) ==
  /\ k \in DOMAIN matched
  /\ Cardinality({p \in 1..Len(matched[k]) : matched[k][p] = j}) = 1
  /\ \A k2 \in DOMAIN matched \ {k} : \A p \in 1..Len(matched[k2]) : matched[k2][p] # j

\* part_000 147-153: the trimmed FIDs of the assets that have one
FidSet ==
  {Trim(JsString(assets[a].FID)) : a \in {b \in 1..Len(assets) : Truthy(assets[b].FID)}}

\* part_000 158, 168: String(insp.pipeSegmentReference ?? "").trim()
TapFid(insp) == Trim(JsString(Coalesce(insp.pipeSegmentReference, Str(<<>>))))

\* part_000 155-176: the asset the tap of an inspection is projected on, the
\* first whose trimmed FID is the trimmed reference; 0 when the tap is
\* dropped
TapAsset(insp) ==
  LET found == {a \in 1..Len(assets) :
                  Truthy(assets[a].FID) /\ Trim(JsString(assets[a].FID)) = TapFid(insp)}
  IN IF TapFid(insp) \notin FidSet \/ found = {} THEN 0
     ELSE CHOOSE a \in found : \A b \in found : a <= b

\* C30 as stated: the tap of an inspection is projected exactly when the
\* matcher files the inspection under some asset, and on the asset the
\* matcher files it under.
C30_TapJoinAgrees ==
  mpc = "done" =>
    \A j \in 1..Len(inspections) :
      LET a == TapAsset(inspections[j])
      IN /\ a # 0 <=> \E k \in DOMAIN matched : FiledUnder(j, k)
         /\ a # 0 => FiledUnder(j, AssetKey(assets[a], a))

\* the half of C30 that reads from the tap join to the matcher
C30_JoinedIsFiled ==
  mpc = "done" =>
    \A j \in 1..Len(inspections) :
      TapAsset(inspections[j]) # 0 => \E k \in DOMAIN matched : FiledUnder(j, k)

\* the assets whose trimmed FID is exactly the trimmed reference of insp
ExactAssets(insp) ==
  {a \in 1..Len(assets) :
     /\ Truthy(assets[a].FID)
     /\ Truthy(insp.pipeSegmentReference)
     /\ Trim(JsString(assets[a].FID)) = Trim(JsString(insp.pipeSegmentReference))}

\* C21 as stated: an inspection whose trimmed reference is exactly the
\* trimmed FID of an asset is filed under that asset, whatever other asset
\* has a FID that differs from it only by letter case or leading zeros and
\* whatever the order of the assets.
C21_ExactMatchWins ==
  mpc = "done" =>
    \A j \in 1..Len(inspections) : \A a \in ExactAssets(inspections[j]) :
      FiledUnder(j, AssetKey(assets[a], a))

\* C22 as stated: an asset that has a FID, the number 0 included, is keyed
\* by its trimmed FID, and an inspection with reference "0" is filed under
\* the asset with FID 0.
C22_KeyedByFid ==
  mpc = "done" =>
    \A a \in 1..Len(assets) :
      assets[a].FID # Undef =>
        /\ AssetKey(assets[a], a) = Str(Trim(JsString(assets[a].FID)))
        /\ RouteAssetKeyStr(assets[a], a) = Str(Trim(JsString(assets[a].FID)))
        /\ \A j \in 1..Len(inspections) :
             (assets[a].FID = Num(0) /\ inspections[j].pipeSegmentReference = Str(<<"0">>))
               => FiledUnder(j, Str(<<"0">>))

\* C1 as stated: with a single asset whose FID is non-empty, an inspection
\* whose reference equals the FID up to trimming, case or leading zeros is
\* filed under that asset's key.
C1_Original ==
  (Done /\ Len(assets) = 1 /\ Truthy(assets[1].FID)
        /\ inspections[1].pipeSegmentReference.t = "str"
        /\ RefEqualsFid(inspections[1].pipeSegmentReference, assets[1].FID))
  => FiledUnder(1, AssetKey(assets[1], 1))

\* C1 amended: the same, for a FID that is still non-empty after trimming
\* (a FID of blanks only gives the empty key, which every lookup treats as
\* a miss).
C1_NormalisedMatch ==
  (Done /\ Len(assets) = 1 /\ Truthy(assets[1].FID)
        /\ Trim(JsString(assets[1].FID)) # <<>>
        /\ inspections[1].pipeSegmentReference.t = "str"
        /\ RefEqualsFid(inspections[1].pipeSegmentReference, assets[1].FID))
  => /\ FiledUnder(1, AssetKey(assets[1], 1))
     /\ AssetKey(assets[1], 1) = Str(Trim(JsString(assets[1].FID)))
     /\ via = <<"ref">>

\* a reference that equals the FID only by its leading zeros is filed
C1_Witness ==
  /\ Done
  /\ assets[1].FID = Str(<<"7">>)
  /\ inspections[1].pipeSegmentReference = Str(<<"0", "0", "7">>)
  /\ FiledUnder(1, Str(<<"7">>))

\* C2: an inspection whose reference resolves is filed under that key by the
\* reference branch, whatever its assetId resolves to; the assetId branch
\* files only inspections whose reference lookup failed, and only under the
\* key of an asset without FID.
C2_RefBeforeAssetId ==
  mpc \in {"match", "done"} =>
    \A j \in 1..Len(via) :
      LET rk == RefLookup(pipeSegmentRefMap, inspections[j])
          ik == IdLookup(assetIdMap, inspections[j])
      IN /\ Truthy(rk) => (via[j] = "ref" /\ FiledUnder(j, rk))
         /\ via[j] = "id" =>
              /\ ~Truthy(rk)
              /\ FiledUnder(j, ik)
              /\ \E a \in 1..Len(assets) :
                   ~Truthy(assets[a].FID) /\ AssetKey(assets[a], a) = ik

\* an inspection filed by its reference although its assetId resolves to
\* another asset
C2_Witness ==
  /\ Done
  /\ \E j \in 1..Len(via) :
       /\ Truthy(RefLookup(pipeSegmentRefMap, inspections[j]))
       /\ Truthy(IdLookup(assetIdMap, inspections[j]))
       /\ RefLookup(pipeSegmentRefMap, inspections[j])
            # IdLookup(assetIdMap, inspections[j])
       /\ FiledUnder(j, RefLookup(pipeSegmentRefMap, inspections[j]))

\* how often inspection j occurs in the returned lists
Occurrences(j) ==
  Cardinality({kp \in {<<k, p>> : k \in DOMAIN matched, p \in 1..2 * Len(inspections)} :
                 kp[2] <= Len(matched[kp[1]]) /\ matched[kp[1]][kp[2]] = j})

Resolves(insp) ==
  Truthy(RefLookup(pipeSegmentRefMap, insp)) \/ Truthy(IdLookup(assetIdMap, insp))

\* C3: on return every inspection occurs once in one list if it resolves and
\* in none otherwise, every list keeps the input order, and the loop never
\* stops before the last inspection.
C3_EachOnceInOrder ==
  /\ Done =>
       /\ \A j \in 1..Len(inspections) :
            Occurrences(j) = IF Resolves(inspections[j]) THEN 1 ELSE 0
       /\ \A k \in DOMAIN matched :
            /\ Len(matched[k]) > 0
            /\ \A p, q \in 1..Len(matched[k]) : p < q => matched[k][p] < matched[k][q]
  /\ mpc = "build" => mi \in 1..Len(assets)
  /\ mpc = "match" => mi \in 1..Len(inspections) /\ Len(via) = mi - 1
  /\ Done => Len(via) = Len(inspections)

\* an unresolvable inspection between two that are filed under one key
C3_Witness ==
  /\ Done
  /\ Len(inspections) = 3
  /\ ~Resolves(inspections[2])
  /\ \E k \in DOMAIN matched : matched[k] = <<1, 3>>

\* ----------------------------------------------- claims on the validator
VDone == vpc \in {"done", "exported"}

\* the input is an array of at least two non-NaN numbers
TwoNumbers(c) ==
  /\ c.kind = "array"
  /\ Len(c.elems) >= 2
  /\ \A n \in 1..2 : c.elems[n].k # "str" /\ c.elems[n].k # "nan"

\* C5: any other input gives null, and a non-null result is a pair of
\* non-NaN (here: finite) numbers with latitude in [-90, 90].
C5_NullOrValidLat ==
  VDone =>
    /\ ~TwoNumbers(vIn) => vOut = NullCoords
    /\ vOut # NullCoords =>
         /\ Len(vOut.elems) = 2
         /\ vOut.elems[1].k = "fin"
         /\ vOut.elems[2].k = "fin"
         /\ vOut.elems[2].v >= -90
         /\ vOut.elems[2].v <= 90

\* both inputs beyond 90: the latitude of the result was clamped
C5_Witness ==
  /\ VDone
  /\ TwoNumbers(vIn)
  /\ vIn.elems[1].k = "fin" /\ Abs(vIn.elems[1].v) > 90
  /\ vIn.elems[2].k = "fin" /\ Abs(vIn.elems[2].v) > 90
  /\ vOut # NullCoords
  /\ vOut.elems[2].v \in {-90, 90}

\* C23 as stated: validating a validated pair again gives the same pair,
\* so the export keeps the coordinates the route stored.
C23_Idempotent ==
  vpc = "exported" => vExport = vOut

\* C6 as stated: the longitude of a non-null result lies in [-180, 180].
C6_LngInRange ==
  (VDone /\ vOut # NullCoords) =>
    (vOut.elems[1].v >= -180 /\ vOut.elems[1].v <= 180)

\* C7: a latitude-first US pair [a, b], 0 < a <= 90 and -180 <= b < 0,
\* comes back as [b, a].
C7_UsPatternSwapped ==
  (VDone /\ TwoNumbers(vIn)
         /\ vIn.elems[1].k = "fin" /\ vIn.elems[2].k = "fin"
         /\ 0 < vIn.elems[1].v /\ vIn.elems[1].v <= 90
         /\ -180 <= vIn.elems[2].v /\ vIn.elems[2].v < 0)
  => vOut = Coords(vIn.elems[2], vIn.elems[1])

C7_Witness ==
  /\ VDone
  /\ vIn = Coords(Fin(38), Fin(-122))
  /\ vOut = Coords(Fin(-122), Fin(38))

\* the swap condition as the claim states it
SwapAsClaimed(a, b) ==
  \/ Abs(b) > 90
  \/ Abs(a) > 180
  \/ /\ Abs(a) <= 90
     /\ Abs(b) <= 180
     /\ Abs(a) < Abs(b)
     /\ \/ a > 0 /\ b < 0
        \/ Abs(a) < 60 /\ Abs(b) > 60
        \/ 10 * Abs(a) < 8 * Abs(b)
        \/ Abs(a) < 50

\* C8 as stated: the first pass swaps exactly when SwapAsClaimed holds.
C8_Original ==
  (VDone /\ TwoNumbers(vIn)) =>
    (vSwapped <=> SwapAsClaimed(Val(vIn.elems[1]), Val(vIn.elems[2])))

\* C8 amended: the first pass also swaps every in-range pair with a > 0 and
\* b < 0, whatever the magnitudes (the code's third pattern).
C8_SwapCondition ==
  (VDone /\ TwoNumbers(vIn)) =>
    LET a == Val(vIn.elems[1])
        b == Val(vIn.elems[2])
    IN vSwapped <=>
         \/ SwapAsClaimed(a, b)
         \/ Abs(a) <= 90 /\ Abs(b) <= 180 /\ a > 0 /\ b < 0

\* a pair swapped by the third pattern alone
C8_Witness ==
  /\ VDone
  /\ vIn = Coords(Fin(50), Fin(-20))
  /\ vSwapped
  /\ vOut = Coords(Fin(-20), Fin(50))

\* --------------------------------------------------- claims on the route
\* the coordinates a lateral's candidate had before validation
RawOf(lateral) ==
  IF lateral.from[1] = "tap" THEN taps[lateral.from[2]].coordinates
  ELSE CalculateLateralPosition(assets[lateral.from[2]],
                                inspections[lateral.from[3]].tapDistance,
                                inspections[lateral.from[3]].clockPosition)

\* every lateral pushed so far and, after the response, every lateral returned
Emitted ==
  {laterals[n] : n \in 1..Len(laterals)}
    \cup (IF rpc = "done" /\ response.status = 200
          THEN {response.laterals[n] : n \in 1..Len(response.laterals)}
          ELSE {})

\* C4: every lateral the route emits, from an inspection or from a tap,
\* carries the non-null result of validateCoordinates on its candidate
\* coordinates, so that its latitude lies in [-90, 90]; no lateral stems
\* from a candidate whose coordinates fail validation.
C4_EmittedValidated ==
  \A l \in Emitted :
    /\ ValidateCoordinates(RawOf(l)) # NullCoords
    /\ l.coordinates = ValidateCoordinates(RawOf(l))
    /\ l.coordinates.elems[2].k = "fin"
    /\ l.coordinates.elems[2].v >= -90
    /\ l.coordinates.elems[2].v <= 90

\* a returned batch with a lateral from an inspection and one from a tap,
\* both corrected by the validator, while an inspection candidate and a tap
\* whose coordinates fail validation are absent from it
C4_Witness ==
  /\ rpc = "done"
  /\ response.status = 200
  /\ \E l \in Emitted : l.from[1] = "inspection" /\ l.coordinates # RawOf(l)
  /\ \E l \in Emitted : l.from[1] = "tap" /\ l.coordinates # RawOf(l)
  /\ \E i \in 1..Len(taps) :
       /\ ValidateCoordinates(taps[i].coordinates) = NullCoords
       /\ \A l \in Emitted : l.from # <<"tap", i>>
  /\ \E a \in 1..Len(assets) :
       \E n \in 1..Len(AssetInspections(matched, assets[a], a)) :
         LET j == AssetInspections(matched, assets[a], a)[n]
         IN /\ ~MissingFields(inspections[j])
            /\ Supported(assets[a])
            /\ ValidateCoordinates(assets[a].pos) = NullCoords
            /\ \A l \in Emitted : l.from # <<"inspection", a, j>>

\* the (asset position, inspection position) pairs the route visits
Pairs ==
  UNION {{<<a, AssetInspections(matched, assets[a], a)[n]>> :
            n \in 1..Len(AssetInspections(matched, assets[a], a))} :
         a \in 1..Len(assets)}

Returned == rpc = "done" /\ response.status = 200
LateralOf(pair) == {l \in Emitted : l.from = <<"inspection", pair[1], pair[2]>>}

\* tapDistance is null/undefined or clockPosition is null/undefined
ClaimedMissing(insp) == insp.tapDistance.t = "undef" \/ insp.clockPosition.k # "num"

\* the projector returns a position for the asset and it validates
Locatable(asset) == Supported(asset) /\ ValidateCoordinates(asset.pos) # NullCoords

\* C13 as stated: a pair whose tapDistance or clockPosition is
\* null/undefined is counted in skippedCount and yields no lateral; a pair
\* with any non-null tapDistance, 0 included, and a defined clockPosition
\* is not skipped for missing fields, so on a locatable asset it yields a
\* lateral; skippedCount counts exactly the pairs without lateral.
C13_SkippedIffMissing ==
  Returned =>
    /\ \A pair \in Pairs :
         /\ ClaimedMissing(inspections[pair[2]]) => LateralOf(pair) = {}
         /\ (~ClaimedMissing(inspections[pair[2]]) /\ Locatable(assets[pair[1]])) =>
              LateralOf(pair) # {}
    /\ response.stats.skippedCount = Cardinality({pair \in Pairs : LateralOf(pair) = {}})

\* one of the inspection's imperial flags is 1 or true
ClaimedImperial(insp) ==
  \E f \in {insp.isImperial, insp.rawIsImperial, insp.propIsImperial} :
    f = Num(1) \/ f = Bool(TRUE)

FeetPerTenThousand == 3048   \* 0.3048 m in a foot, times 10000
TenThousand == 10000

\* C14 as stated, for the process route: the distance handed to the
\* projector for a lateral is tapDistance * 0.3048 when an imperial flag of
\* the inspection is 1 or true, and tapDistance itself otherwise.
C14_ImperialConverted ==
  \A l \in Emitted :
    l.from[1] = "inspection" =>
      IF ClaimedImperial(inspections[l.from[3]])
      THEN l.projected.n * TenThousand = l.tapDistance.n * FeetPerTenThousand
      ELSE l.projected = l.tapDistance

\* the error the claim expects for a geometry type
NamedError(geomType) ==
  [kind |-> "throw", message |-> <<"Unsupported geometry type: ", geomType>>]

\* the pairs of an asset whose geometry type is not projected, with the
\* fields the route requires
UnsupportedPairs ==
  {pair \in Pairs : ~Supported(assets[pair[1]]) /\ ~MissingFields(inspections[pair[2]])}

\* C16: for an asset of any other geometry type calculateLateralPosition
\* and calculateLateralStub throw an error naming the type; in the route
\* such a pair yields no lateral and is counted in skippedCount once, every
\* pair on a locatable asset still yields its lateral, and a request with
\* both arrays is answered with success and those laterals.
C16_UnsupportedSkipped ==
  /\ \A a \in 1..Len(assets) : \A j \in 1..Len(inspections) :
       ~Supported(assets[a]) =>
         /\ CalculateLateralPosition(assets[a], inspections[j].tapDistance,
                                     inspections[j].clockPosition)
              = NamedError(assets[a].geomType)
         /\ CalculateLateralStub(assets[a], inspections[j].tapDistance,
                                 inspections[j].clockPosition)
              = NamedError(assets[a].geomType)
  /\ (rpc = "done" /\ rBody = "ok") =>
       /\ response.status = 200
       /\ response.laterals = laterals
       /\ \A pair \in UnsupportedPairs : LateralOf(pair) = {}
       /\ \A pair \in Pairs :
            (Locatable(assets[pair[1]]) /\ ~MissingFields(inspections[pair[2]])) =>
              LateralOf(pair) # {}
       /\ response.stats.skippedCount = Cardinality({pair \in Pairs : LateralOf(pair) = {}})

\* a returned batch with a pair on a polygon asset and a lateral from
\* another pair
C16_Witness ==
  /\ Returned
  /\ UnsupportedPairs # {}
  /\ response.stats.skippedCount >= 1
  /\ \E pair \in Pairs : LateralOf(pair) # {}

\* the laterals promoted from taps
Promoted == {l \in Emitted : l.from[1] = "tap"}

\* C18 as stated: taps are promoted only under a non-empty layer name, and
\* a promoted lateral has properties.layerName equal to that name,
\* properties.source equal to 'tap', and the tap's defectCode, inspectionId
\* and original pipeSegmentReference, whatever the tap's property bag holds.
C18_TapProvenance ==
  /\ Promoted # {} => (lateralLayerName.t = "str" /\ lateralLayerName.s # <<>>)
  /\ \A l \in Promoted :
       /\ l.properties.layerName = lateralLayerName
       /\ l.properties.source = TapSource
       /\ l.properties.defectCode = taps[l.from[2]].defectCode
       /\ l.properties.inspectionId = taps[l.from[2]].inspectionId
       /\ l.properties.originalPipeSegmentReference = taps[l.from[2]].pipeSegmentReference

\* the positions of the defects that carry the inspection's inspectionId
DefectsOfId(insp) ==
  {k \in 1..Len(defects) :
     /\ insp.inspectionId.t = "str"
     /\ defects[k].inspectionId = insp.inspectionId}

\* C19 as stated: for a matched inspection every defect with the
\* inspection's inspectionId, with or without a pipeSegmentReference, is
\* among the processed defects and is counted in the defectCount of the
\* inspection's lateral.
C19_DefectsJoinedById ==
  Returned =>
    \A pair \in Pairs :
      /\ \A k \in DefectsOfId(inspections[pair[2]]) :
           \E n \in 1..Len(response.defects) : response.defects[n] = k
      /\ \A l \in LateralOf(pair) :
           l.properties.defectCount.n >= Cardinality(DefectsOfId(inspections[pair[2]]))

\* what the stub computation gave for an asset, and whether it failed
StubFailed(asset) ==
  \/ Threw(asset.stub)
  \/ ValidateCoordinates(asset.stub.stubLine[1]) = NullCoords
  \/ ValidateCoordinates(asset.stub.stubLine[2]) = NullCoords

C24_SameKey ==
  rpc \notin {"start", "idle"} =>
    /\ \A a \in 1..Len(assets) : AssetKey(assets[a], a) = RouteAssetKeyStr(assets[a], a)
    /\ \A k \in DOMAIN matched : \A n \in 1..Len(matched[k]) :
         \E a \in 1..Len(assets) :
           /\ AssetKey(assets[a], a) = k
           /\ <<a, matched[k][n]>> \in Pairs

\* C25 as stated: no input defect occurs twice among the processed
\* defects, and defectCount never exceeds the number of input defects.
C25_DefectsOnce ==
  /\ \A m, n \in 1..Len(processedDefects) :
       m # n => processedDefects[m] # processedDefects[n]
  /\ defectCount <= Len(defects)

\* C26: a pair that is skipped adds one to skippedCount and nothing to
\* processedCount, a pair that is emitted one to processedCount and nothing
\* to skippedCount, a promoted tap one to processedCount; at every step
\* processedCount is the number of laterals and defectCount the number of
\* processed defects, the two counters together account for every pair
\* handled, and the returned lateralsCount equals the returned
\* processedCount.
C26_CountersAgree ==
  /\ [](/\ processedCount = Len(laterals)
        /\ defectCount = Len(processedDefects)
        /\ Returned =>
             /\ response.stats.lateralsCount = response.stats.processedCount
             /\ response.stats.processedCount = Len(response.laterals)
             /\ response.stats.defectsCount = Len(response.defects)
             /\ response.stats.processedCount + response.stats.skippedCount
                  = Cardinality(Pairs) + Cardinality(Promoted))
  /\ [][/\ (rpc = "pairs" /\ rpc' = "geocode") =>
             (processedCount' = processedCount /\ skippedCount' = skippedCount)
        /\ (rpc = "pairs" /\ rpc' # "geocode") =>
             (processedCount' = processedCount /\ skippedCount' = skippedCount + 1)
        /\ rpc = "geocode" =>
             (processedCount' = processedCount + 1 /\ skippedCount' = skippedCount)
        /\ rpc = "taps" =>
             /\ skippedCount' = skippedCount
             /\ processedCount' - processedCount = Len(laterals') - Len(laterals)
             /\ processedCount' - processedCount \in {0, 1}]_vars

\* a returned batch with emitted and skipped pairs, a promoted tap and a
\* processed defect
C26_Witness ==
  /\ Returned
  /\ response.stats.skippedCount >= 1
  /\ \E l \in Emitted : l.from[1] = "inspection"
  /\ Promoted # {}
  /\ response.stats.defectsCount >= 1

\* the addresses a lateral from an inspection may carry
Addresses == ServiceAddresses \cup {NotFound, GeocodingFailed}

\* How far the handler has come: the phase, then the position of the double
\* loop, then whether it is inside the geocoding step, then the tap loop.
Stage ==
  IF rpc = "start" THEN 0
  ELSE IF rpc \in {"pairs", "geocode"} THEN 1
  ELSE IF rpc = "taps" THEN 2
  ELSE IF rpc = "respond" THEN 3
  ELSE 4

Progress ==
  <<Stage, assetIndex, inspIndex, IF rpc = "geocode" THEN 1 ELSE 0, tapIndex>>

RECURSIVE Before(_, _)
Before(p, q) ==
  IF p = <<>> THEN FALSE
  ELSE Head(p) < Head(q) \/ (Head(p) = Head(q) /\ Before(Tail(p), Tail(q)))

\* C15: whether the geocoder resolves, rejects or never answers, a route
\* waiting for an address always leaves the wait (the timer ends it at the
\* latest); the step that ends it emits exactly the pending lateral with the
\* service's address or a placeholder, counts it as processed, skips
\* nothing and moves on to the next record; and every step of the handler
\* takes it strictly further through the batch, so the batch returns.
C15_GeocodeBounded ==
  /\ [][rpc = "geocode" =>
          /\ laterals' = Append(laterals, [pending EXCEPT !.address = laterals'[Len(laterals')].address])
          /\ laterals'[Len(laterals')].address \in Addresses
          /\ processedCount' = processedCount + 1
          /\ skippedCount' = skippedCount
          /\ rpc' \in {"pairs", "taps", "respond"}]_vars
  /\ [][Before(Progress, Progress')]_vars
  /\ [](rpc = "geocode" => <>(rpc # "geocode"))

\* a returned batch in which the service never answered in time for one
\* record (placeholder, nothing cached) and failed for another
C15_Witness ==
  /\ Returned
  /\ mapboxToken
  /\ geocodingCache = EmptyMap
  /\ \E l \in Emitted : l.from[1] = "inspection" /\ l.address = NotFound
  /\ \E l \in Emitted : l.from[1] = "inspection" /\ l.address = GeocodingFailed

\* ------------------------------------------- claims on the tap classifier
\* the code of a defect, trimmed, starts with TB, TF or TS in any case
ClaimedTapCode(code) ==
  /\ code.t = "str"
  /\ Len(Trim(code.s)) >= 2
  /\ Trim(code.s)[1] \in {"T", "t"}
  /\ Trim(code.s)[2] \in {"B", "b", "F", "f", "S", "s"}

\* the first of defectCode, PACP_Code and Code the defect has
ClaimedCode(d) ==
  IF d.defectCode # Undef THEN d.defectCode
  ELSE IF d.PACP_Code # Undef THEN d.PACP_Code
  ELSE d.Code

ClaimedTap(d) == ClaimedTapCode(ClaimedCode(d)) /\ d.distance.t = "num"

\* the members of a list
Members(seq) == {seq[k] : k \in 1..Len(seq)}

\* C17: the filter keeps a defect if and only if its code, trimmed and
\* without regard to case, starts with TB, TF or TS and its distance is a
\* number; "TF1" with a distance is kept, "TF" without a distance and a
\* non-tap code with a distance are not.
C17_TapClassified ==
  /\ IsTapDefect(MapDefect(Str(<<"T", "F", "1">>), Undef, Undef, Num(5)))
  /\ ~IsTapDefect(MapDefect(Str(<<"T", "F">>), Undef, Undef, Undef))
  /\ ~IsTapDefect(MapDefect(Str(<<"F", "T">>), Undef, Undef, Num(5)))
  /\ tpc = "filtered" =>
       /\ \A d \in Members(mapDefects) : d \in Members(tapDefects) <=> ClaimedTap(d)
       /\ Len(tapDefects) = Cardinality({k \in 1..Len(mapDefects) : ClaimedTap(mapDefects[k])})

\* a filtered list whose second defect, code " tf" with distance 0, is kept
\* next to "TF1"
C17_Witness ==
  /\ tpc = "filtered"
  /\ Len(mapDefects) = 2
  /\ mapDefects[2].defectCode = Str(<<" ", "t", "f">>)
  /\ mapDefects[2].distance = Num(0)
  /\ tapDefects = mapDefects

\* ------------------------------------------------ claims on the projector
LineAsset == pGeometry.type \in LineTypes
PositionDone == ppc \in {"position", "both"}
StubDone == ppc \in {"stub", "both"}

\* C11 as stated: for a line asset of length L the distance at which
\* calculateLateralFromLine and calculateStubFromLine take the connection
\* point lies in [0, L] for every requested distance, a request beyond L is
\* replaced by L, and no returned point lies beyond either end of the line.
C11_AlongWithinLine ==
  (LineAsset /\ (PositionDone \/ StubDone)) =>
    /\ ClampedDistance(pDistance, pGeometry.line.len) >= 0
    /\ ClampedDistance(pDistance, pGeometry.line.len) <= pGeometry.line.len
    /\ pDistance > pGeometry.line.len =>
         ClampedDistance(pDistance, pGeometry.line.len) = pGeometry.line.len
    /\ (PositionDone /\ pPosition.kind = "point") => pPosition.at \in 0..pGeometry.line.len
    /\ (StubDone /\ pStub.kind = "stub") => pStub.at \in 0..pGeometry.line.len

\* the tangent bearing the code estimates at the connection point: the
\* line's bearing wherever the sampled segment has an extent
TangentAt(line, distance, turfThrows) ==
  LineBearing(line, ClampedDistance(distance, line.len), turfThrows).deg

\* C12: on a line asset, when clockToSide gives side 0 a returned lateral
\* position is the point at the clamped distance with no offset while a
\* returned stub ends StubLengthMm away at tangent + 90; when the side is
\* +1 or -1 both are offset at the same bearing, tangent + 90 for right
\* and tangent - 90 for left.  The tangent is the line's own bearing for
\* every request from 0 on a line that has a length.
C12_SideOffsets ==
  LineAsset =>
    LET line == pGeometry.line
        side == ClockToSide(pClock).side
        tangent == TangentAt(line, pDistance, pTurfThrows)
        onLine == Along(line, ClampedDistance(pDistance, line.len), pTurfThrows)
    IN /\ (pDistance >= 0 /\ line.len > 0) => tangent = line.tangent
       /\ (PositionDone /\ pPosition.kind # "throw") =>
            /\ pPosition.kind = "point"
            /\ pPosition.at = onLine.at
            /\ side = 0 => pPosition.offset = 0
            /\ side # 0 =>
                 /\ pPosition.offset = OffsetDistance
                 /\ pPosition.bearing = (tangent + side * 90) % 360
       /\ (StubDone /\ pStub.kind # "throw") =>
            /\ pStub.kind = "stub"
            /\ pStub.at = onLine.at
            /\ pStub.offset = StubLengthMm
            /\ side = 0 => pStub.bearing = (tangent + 90) % 360
            /\ side # 0 => pStub.bearing = (tangent + side * 90) % 360
       /\ (PositionDone /\ StubDone /\ side # 0
           /\ pPosition.kind # "throw" /\ pStub.kind # "throw") =>
            pPosition.bearing = pStub.bearing

\* clock 12 on a line heading 135 degrees, the request beyond the end: the
\* lateral point is the end of the line, the stub leaves it at 225 degrees
C12_Witness ==
  /\ ppc = "both"
  /\ pGeometry = Geometry("LineString", Line(MaxLine, 135))
  /\ pDistance > MaxLine
  /\ pClock = ClockNum(12 * ClockScale)
  /\ pPosition = [kind |-> "point", at |-> MaxLine, offset |-> 0, bearing |-> 0]
  /\ pStub = [kind |-> "stub", at |-> MaxLine, offset |-> StubLengthMm, bearing |-> 225]

\* ---------------------------------------------------- claims on the clock
\* C9: for an integer reading c, clockToBearing(c) = (c mod 12) * 30, in
\* [0, 360).
C9_BearingOfClock ==
  (cpc \in {"bearing", "both"} /\ cIn.h % ClockScale = 0) =>
    /\ cBearing = (((cIn.h \div ClockScale) % 12) * 30) * ClockScale
    /\ cBearing >= 0
    /\ cBearing < 360 * ClockScale

\* a negative reading: -3 o'clock is 9 o'clock, 270 degrees
C9_Witness ==
  /\ cpc \in {"bearing", "both"}
  /\ cIn = ClockNum(-3 * ClockScale)
  /\ cBearing = 270 * ClockScale

\* the side and confidence the claim gives for a reading
SideAsClaimed(clock) ==
  IF clock.k # "num" THEN Side(0, None)
  ELSE
    LET n == clock.h % (12 * ClockScale)
        c == IF n = 0 THEN 12 * ClockScale ELSE n
    IN CASE c = 3 * ClockScale -> Side(1, High)
         [] c = 9 * ClockScale -> Side(-1, High)
         [] c # 3 * ClockScale /\ c < 6 * ClockScale -> Side(1, Low)
         [] c # 9 * ClockScale /\ c > 6 * ClockScale /\ c < 12 * ClockScale -> Side(-1, Low)
         [] c = 6 * ClockScale \/ c = 12 * ClockScale -> Side(0, Low)

\* C10: clockToSide gives the side and confidence of the claim's table for
\* every reading, null and undefined included.
C10_SideOfClock ==
  cpc \in {"side", "both"} => cSide = SideAsClaimed(cIn)

\* a negative reading normalised to exactly 9
C10_Witness ==
  /\ cpc \in {"side", "both"}
  /\ cIn = ClockNum(-3 * ClockScale)
  /\ cSide = Side(-1, High)

====
